---------------------------- MODULE Spec2Model ----------------------------
(***************************************************************************)
(* MCP Weather Server: the request dispatcher handleMCPRequest             *)
(* (controllers/mcpController.js), the endpoint registry                   *)
(* (config/endpoints.js), request validation (utils/validation.js) and     *)
(* the context envelope builders (utils/mcpUtils.js).                      *)
(*                                                                         *)
(* A JavaScript object is a function from its own keys (strings) to        *)
(* values; a key that is not in the DOMAIN is an absent (undefined)        *)
(* property.  An array is a sequence.                                      *)
(***************************************************************************)
EXTENDS Integers, Sequences, FiniteSets, TLC

VARIABLES
    pc,          \* position of the handler: idle, await_geo, await_upstream, responded, rejected
    body,        \* req.body of the request being handled
    mcpContext,  \* the validated context (const mcpContext, line 32) while the handler runs
    endpointName,\* the resolved endpoint name (line 192) while the upstream call is awaited
    status,      \* HTTP status of the response sent (0: none sent)
    resBody,     \* JSON body of the response sent
    sent,        \* number of res.json calls made for the request
    calls,       \* outbound axios.get calls issued for the request, in order
    thrown,      \* the error that left the handler uncaught (NoError if none)
    upstreamError, \* the error the upstream call rejected with (NoError if none)
    upstreamData,  \* the payload the upstream call resolved with, as <<data>> (<<>> if none)
    geoResult,   \* how the geocoding call settled: {ok, data} or {ok, err} (empty if it has not)
    clock,       \* the system clock, read by new Date()
    original,    \* builder chain: the context the chain started from
    context,     \* builder chain: the context returned by the last builder application
    applied,     \* builder chain: the builder applications made so far, in order
    invocations, \* concurrent requests: the state of each invocation of the handler
    req,         \* Express app: the HTTP request being routed (empty if none)
    res,         \* Express app: the response sent for it (status 0: none sent)
    stage,       \* Express app: the middleware or handler the request is at
    rawInput,    \* sanitizer: the string given to sanitizeInput, as its characters
    sanitized    \* sanitizer: the string sanitizeInput returned, as <<characters>> (<<>> if not called)

vars == <<pc, body, mcpContext, endpointName, status, resBody, sent, calls,
          thrown, upstreamError, upstreamData, geoResult, clock, original, context, applied,
          invocations, req, res, stage, rawInput, sanitized>>

handlerVars == <<pc, body, mcpContext, endpointName, status, resBody, sent,
                 calls, thrown, upstreamError, upstreamData, geoResult>>

chainVars == <<original, context, applied>>

concurrentVars == <<invocations>>

appVars == <<req, res, stage>>

sanitizeVars == <<rawInput, sanitized>>

(***************************************************************************)
(* Bounds of the model.                                                    *)
(***************************************************************************)
MaxTools == 2      \* longest tools array a caller submits
MaxChain == 2      \* longest chain of builder applications / chained dispatches
MaxClock == 1      \* latest instant the clock reaches

(***************************************************************************)
(* JavaScript object helpers.                                              *)
(***************************************************************************)
EmptyObject == [k \in {} |-> 0]

\* The value that stands for "no error" in the variables that record one.
NoError == EmptyObject

Has(o, k) == k \in DOMAIN o

\* {...a, ...b}: every key of b overrides the same key of a.
Spread(a, b) ==
    [k \in (DOMAIN a) \cup (DOMAIN b) |-> IF k \in DOMAIN b THEN b[k] ELSE a[k]]

\* o.k || d, for array- and object-valued properties (always truthy when present).
PropOr(o, k, d) == IF Has(o, k) THEN o[k] ELSE d

(***************************************************************************)
(* ISO-8601 date strings.  A string is the instant it denotes and the      *)
(* form it is written in: "extended" is the simplified extended form       *)
(* Date.prototype.toISOString produces (2025-06-08T10:00:00.000Z), "short" *)
(* any other valid ISO form of the same instant (2025-06-08T10:00:00Z).    *)
(***************************************************************************)
IsoForms == {"extended", "short"}

IsoString(t, form) == [instant |-> t, form |-> form]

\* new Date(...).toISOString()
toISOString(t) == IsoString(t, "extended")


(***************************************************************************)
(* JSON values that are not objects.  null, undefined and arrays are       *)
(* tagged records, so that any two values can be compared.                 *)
(***************************************************************************)
Null == [type |-> "null"]

Undefined == [type |-> "undefined"]

Array(items) == [type |-> "array", items |-> items]

IsArray(v) == Has(v, "type") /\ v["type"] = "array"

\* An object literal {t: src[m[t]], ...} built from the properties of src
\* named by m.  A property whose value is undefined (src has no m[t]) does
\* not survive JSON serialisation and is left out.
Pick(src, m) == [t \in {k \in DOMAIN m : m[k] \in DOMAIN src} |-> src[m[t]]]

(***************************************************************************)
(* Endpoint registry (config/endpoints.js).  A transformer is named by a   *)
(* tag and applied by Transform below.                                     *)
(***************************************************************************)
endpoints ==
    [getWeather |->
        [url |-> "https://api.open-meteo.com/v1/forecast",
         transformer |-> "transformWeatherData",
         defaultParams |->
            [current_weather |-> TRUE,
             daily |-> "temperature_2m_max,temperature_2m_min,weathercode"]],
     getCurrentWeather |->
        [url |-> "https://api.open-meteo.com/v1/forecast",
         transformer |-> "currentWeatherTransformer",
         defaultParams |-> [current_weather |-> TRUE]],
     getUsers |->
        [url |-> "https://jsonplaceholder.typicode.com/users",
         transformer |-> "usersTransformer"],
     getPosts |->
        [url |-> "https://jsonplaceholder.typicode.com/posts"]]

\* Object.keys(endpoints), in definition order.
EndpointKeys == <<"getWeather", "getCurrentWeather", "getUsers", "getPosts">>

\* Property names every object literal inherits from Object.prototype.
ObjectPrototypeKeys == {"constructor", "toString"}

\* What endpoints[name] finds on the prototype chain for an inherited name: a
\* built-in function, which has no url, defaultParams or transformer.
InheritedMember == [builtin |-> "Object.prototype"]

\* endpoints[name]: own properties first, then the prototype chain.
EndpointLookup(name) ==
    IF name \in DOMAIN endpoints THEN endpoints[name]
    ELSE IF name \in ObjectPrototypeKeys THEN InheritedMember
    ELSE Undefined

(***************************************************************************)
(* Response transformers.  The result is [threw, value]: the transformers  *)
(* read properties of their argument and throw a TypeError when it is      *)
(* null, when a users payload is not an array, or when a user record has   *)
(* no address.                                                             *)
(***************************************************************************)
Returned(v) == [threw |-> FALSE, value |-> v]

Threw(msg) == [threw |-> TRUE, message |-> msg]

CurrentOf(data) ==
    IF Has(data, "current_weather") /\ data["current_weather"] # Null
    THEN Pick(data["current_weather"],
              [temperature |-> "temperature", windspeed |-> "windspeed",
               winddirection |-> "winddirection", weathercode |-> "weathercode",
               time |-> "time"])
    ELSE Null

ForecastOf(data) ==
    IF Has(data, "daily") /\ data["daily"] # Null
    THEN Pick(data["daily"],
              [dates |-> "time", temperatures_max |-> "temperature_2m_max",
               temperatures_min |-> "temperature_2m_min",
               weather_codes |-> "weathercode"])
    ELSE Null

LocationOf(data) ==
    Pick(data, [latitude |-> "latitude", longitude |-> "longitude",
                timezone |-> "timezone"])

transformWeatherData(data) ==
    IF data = Null THEN Threw("Cannot read properties of null")
    ELSE Returned([location |-> LocationOf(data),
                   current |-> CurrentOf(data),
                   forecast |-> ForecastOf(data)])

currentWeatherTransformer(data) ==
    IF data = Null THEN Threw("Cannot read properties of null")
    ELSE Returned([location |-> LocationOf(data),
                   current |-> CurrentOf(data)])

UserOf(user) ==
    Spread(Pick(user, [id |-> "id", name |-> "name", email |-> "email"]),
           Pick(user["address"], [city |-> "city"]))

usersTransformer(data) ==
    IF ~IsArray(data) THEN Threw("data.map is not a function")
    ELSE IF \E i \in 1..Len(data["items"]) : ~Has(data["items"][i], "address")
    THEN Threw("Cannot read properties of undefined (reading 'city')")
    ELSE Returned(Array([i \in 1..Len(data["items"]) |-> UserOf(data["items"][i])]))

\* A dispatcher that never applies the endpoint's transformer.
Transform_Passthrough(endpointConfig, data) == Returned(data)

\* endpointConfig.transformer ? endpointConfig.transformer(data) : data
Transform(endpointConfig, data) ==
    IF ~Has(endpointConfig, "transformer") THEN Returned(data)
    ELSE IF endpointConfig["transformer"] = "transformWeatherData"
    THEN transformWeatherData(data)
    ELSE IF endpointConfig["transformer"] = "currentWeatherTransformer"
    THEN currentWeatherTransformer(data)
    ELSE usersTransformer(data)

(***************************************************************************)
(* Request validation (utils/validation.js, mcpRequestSchema).  Joi        *)
(* validates with its default convert option on and returns the converted  *)
(* value: a tools entry's timestamp, declared Joi.string().isoDate(), is   *)
(* rewritten to the simplified extended ISO form of the same instant.      *)
(* Unknown top-level keys (id, method, jsonrpc, params) are allowed.       *)
(***************************************************************************)
\* Joi's coercion of a string().isoDate() value.
CoerceIsoDate(ts) == IsoString(ts["instant"], "extended")

\* A tools entry after validation.
ConvertTool(tool) ==
    IF Has(tool, "timestamp")
    THEN Spread(tool, [timestamp |-> CoerceIsoDate(tool["timestamp"])])
    ELSE tool

\* The messages of the schema's violations, in schema order (abortEarly: false).
ValidationDetails(requestBody) ==
    (IF ~Has(requestBody, "input") THEN <<"\"input\" is required">>
     ELSE IF ~Has(requestBody["input"], "endpointName")
          THEN <<"\"input.endpointName\" is required">>
     ELSE IF requestBody["input"]["endpointName"] = ""
          THEN <<"\"input.endpointName\" is not allowed to be empty">>
     ELSE <<>>)
    \o
    (IF Has(requestBody, "tools")
        /\ \E i \in 1..Len(requestBody["tools"]) : ~Has(requestBody["tools"][i], "name")
     THEN <<"\"tools[i].name\" is required">>
     ELSE <<>>)

validateMCPRequest(requestBody) ==
    LET details == ValidationDetails(requestBody) IN
    IF details # <<>> THEN [error |-> TRUE, details |-> details]
    ELSE [error |-> FALSE,
          value |-> IF Has(requestBody, "tools")
                    THEN Spread(requestBody,
                                [tools |-> [i \in 1..Len(requestBody["tools"]) |->
                                               ConvertTool(requestBody["tools"][i])]])
                    ELSE requestBody]

(***************************************************************************)
(* Context envelope builders (utils/mcpUtils.js).  now is the value of     *)
(* new Date().toISOString() at the call.  output.metadata.dataSize, the    *)
(* length of the serialised data, is not modelled (payloads are abstract). *)
(***************************************************************************)
buildMCPResponse(originalContext, fetchedData, endpoint, now) ==
    LET toolCall ==
            [name |-> "fetch_endpoint",
             input |-> Spread([endpoint |-> endpoint],
                              PropOr(originalContext, "input", EmptyObject)),
             output |-> [success |-> TRUE,
                         data |-> fetchedData,
                         metadata |-> [endpoint |-> endpoint, timestamp |-> now]],
             timestamp |-> now,
             duration |-> 0]
    IN  Spread(originalContext,
               [tools |-> Append(PropOr(originalContext, "tools", <<>>), toolCall),
                metadata |->
                    Spread(PropOr(originalContext, "metadata", EmptyObject),
                           [last_updated |-> now,
                            tool_count |-> Len(PropOr(originalContext, "tools", <<>>)) + 1,
                            last_endpoint |-> endpoint])])

\* buildMCPErrorResponse with the metadata spread written after the
\* server-maintained fields, so that the context's own values win.
buildMCPErrorResponse_SpreadLast(originalContext, errorMessage, endpoint, now) ==
    LET toolCall ==
            [name |-> "fetch_endpoint",
             input |-> Spread([endpoint |-> endpoint],
                              PropOr(originalContext, "input", EmptyObject)),
             output |-> [success |-> FALSE,
                         error |-> errorMessage,
                         metadata |-> [endpoint |-> endpoint, timestamp |-> now]],
             timestamp |-> now]
    IN  Spread(originalContext,
               [tools |-> Append(PropOr(originalContext, "tools", <<>>), toolCall),
                metadata |->
                    Spread([last_updated |-> now,
                            last_error |-> errorMessage,
                            last_endpoint |-> endpoint],
                           PropOr(originalContext, "metadata", EmptyObject))])

buildMCPErrorResponse(originalContext, errorMessage, endpoint, now) ==
    LET toolCall ==
            [name |-> "fetch_endpoint",
             input |-> Spread([endpoint |-> endpoint],
                              PropOr(originalContext, "input", EmptyObject)),
             output |-> [success |-> FALSE,
                         error |-> errorMessage,
                         metadata |-> [endpoint |-> endpoint, timestamp |-> now]],
             timestamp |-> now]
    IN  Spread(originalContext,
               [tools |-> Append(PropOr(originalContext, "tools", <<>>), toolCall),
                metadata |->
                    Spread(PropOr(originalContext, "metadata", EmptyObject),
                           [last_updated |-> now,
                            last_error |-> errorMessage,
                            last_endpoint |-> endpoint])])

\* A builder that pushes the new record onto the tools array it was given.
argumentAfterBuild_Push(originalContext, toolCall) ==
    Spread(originalContext,
           [tools |-> Append(PropOr(originalContext, "tools", <<>>), toolCall)])

\* The object passed as originalContext, as it is when the builder returns.
\* Both builders only read it: the new tools array is
\* [...(originalContext.tools || []), toolCall] and the new metadata and
\* context are object spreads (lines 34-43 and 80-93); nothing is assigned
\* to, or pushed onto, the argument.
argumentAfterBuild(originalContext, toolCall) == originalContext

(***************************************************************************)
(* handleMCPRequest (controllers/mcpController.js, lines 16-358).          *)
(***************************************************************************)
\* mcpContext.metadata?.format === 'jsonrpc'
IsJsonRpc(ctx) ==
    /\ Has(ctx, "metadata")
    /\ Has(ctx["metadata"], "format")
    /\ ctx["metadata"]["format"] = "jsonrpc"

\* Truthiness of a numeric property: absent (undefined) and 0 are falsy.
TruthyNumber(o, k) == Has(o, k) /\ o[k] # 0

\* Truthiness of a string property: absent (undefined) and "" are falsy.
TruthyString(o, k) == Has(o, k) /\ o[k] # ""

\* toolArgs.location && !toolArgs.latitude && !toolArgs.longitude (lines 110-114)
NeedsGeocoding(toolArgs) ==
    /\ TruthyString(toolArgs, "location")
    /\ ~TruthyNumber(toolArgs, "latitude")
    /\ ~TruthyNumber(toolArgs, "longitude")

\* {jsonrpc: '2.0', id: mcpContext.id, ...rest}: an undefined id is not serialised.
JsonRpcEnvelope(ctx, rest) ==
    Spread(Spread([jsonrpc |-> "2.0"], Pick(ctx, [id |-> "id"])), rest)

\* lines 47-66
initResponse(ctx) ==
    JsonRpcEnvelope(ctx,
        [result |->
            [protocolVersion |-> "2024-11-05",
             capabilities |->
                [tools |-> [listChanged |-> TRUE],
                 resources |-> [subscribe |-> FALSE, listChanged |-> FALSE]],
             serverInfo |-> [name |-> "MCP Weather Server", version |-> "1.0.0"]]])

\* lines 71-102
toolsResponse(ctx) ==
    JsonRpcEnvelope(ctx,
        [result |->
            [tools |->
                <<[name |-> "get_weather",
                   description |-> "Get current weather information for a location",
                   inputSchema |->
                      [type |-> "object",
                       properties |-> {"location", "latitude", "longitude"},
                       required |-> <<"location">>]]>>]])

\* lines 142-152
locationNotFoundResponse(ctx, toolArgs) ==
    JsonRpcEnvelope(ctx,
        [error |->
            [code |-> -32602,
             message |-> <<"Location \"", toolArgs["location"], "\" not found">>,
             data |-> [details |-> "Could not geocode the provided location"]]])

\* lines 157-167
geocodingUnavailableResponse(ctx, geoError) ==
    JsonRpcEnvelope(ctx,
        [error |->
            [code |-> -32603,
             message |-> <<"Geocoding service unavailable">>,
             data |-> [details |-> geoError["message"]]]])

\* lines 176-186
methodNotFoundResponse(ctx) ==
    JsonRpcEnvelope(ctx,
        [error |->
            [code |-> -32601,
             message |-> <<"Method not found: ", PropOr(ctx, "method", "undefined")>>,
             data |-> [availableMethods |-> <<"initialize", "tools/list", "tools/call">>]]])

\* lines 196-206
invalidEndpointRpcResponse(ctx) ==
    JsonRpcEnvelope(ctx,
        [error |->
            [code |-> -32602,
             message |-> <<"Invalid or missing endpoint">>,
             data |-> [availableEndpoints |-> EndpointKeys]]])

\* lines 211-214
invalidEndpointResponse ==
    [error |-> "Invalid or missing endpointName",
     availableEndpoints |-> EndpointKeys]

\* lines 35-38
invalidRequestResponse(details) ==
    [error |-> "Invalid MCP request", details |-> details]

\* mergedParams with the two spreads in the opposite order, so that the
\* endpoint's defaults override the caller's values.
mergedParams_DefaultsWin(endpointConfig, input) ==
    Spread(PropOr(input, "queryParams", EmptyObject),
           PropOr(endpointConfig, "defaultParams", EmptyObject))

\* {...endpointConfig.defaultParams, ...queryParams} (lines 219-222)
mergedParams(endpointConfig, input) ==
    Spread(PropOr(endpointConfig, "defaultParams", EmptyObject),
           PropOr(input, "queryParams", EmptyObject))

\* lines 224-231
requestConfig(endpointConfig, input) ==
    [params |-> mergedParams(endpointConfig, input),
     timeout |-> 10000,
     headers |-> Spread([h \in {"User-Agent"} |-> "MCP-Weather-Server/1.0.0"],
                        PropOr(input, "authHeaders", EmptyObject))]

\* The text of a JSON-RPC weather result (lines 246-275), as its parts: the
\* location name, whether the current-weather lines are present, and the
\* number of forecast lines.
weatherText(ctx, transformedData) ==
    LET qp == PropOr(ctx["input"], "queryParams", EmptyObject)
        locationName ==
            IF TruthyString(qp, "location_name") THEN qp["location_name"]
            ELSE IF TruthyString(qp, "location") THEN qp["location"]
            ELSE "Unknown Location"
        hasCurrent == Has(transformedData, "current") /\ transformedData["current"] # Null
        hasForecast == Has(transformedData, "forecast") /\ transformedData["forecast"] # Null
        dates == IF hasForecast
                 THEN PropOr(transformedData["forecast"], "dates", <<>>)
                 ELSE <<>>
    IN  [locationName |-> locationName,
         current |-> hasCurrent,
         forecastLines |-> IF Len(dates) < 3 THEN Len(dates) ELSE 3]

\* lines 277-288
weatherResponse(ctx, transformedData) ==
    JsonRpcEnvelope(ctx,
        [result |->
            [content |-> <<[type |-> "text",
                            text |-> weatherText(ctx, transformedData)]>>]])

(***************************************************************************)
(* Errors.  An axios error carries code 'ECONNABORTED' on a timeout and a  *)
(* response {status, statusText} when the upstream answered with a         *)
(* non-success status; any other failure carries neither.                  *)
(***************************************************************************)
\* Template literals are modelled as the sequence of their parts, each a
\* string; plain string messages are one-part sequences.
Numeral(n) ==
    CASE n = 503 -> "503" [] n = 5000 -> "5000" [] n = 10000 -> "10000"

TimeoutError(ms) ==
    [message |-> <<"timeout of ", Numeral(ms), "ms exceeded">>,
     code |-> "ECONNABORTED"]

HttpError(st, text) ==
    [message |-> <<"Request failed with status code ", Numeral(st)>>,
     code |-> "ERR_BAD_RESPONSE",
     response |-> [status |-> st, statusText |-> text]]

NetworkError == [message |-> <<"getaddrinfo ENOTFOUND">>, code |-> "ENOTFOUND"]

TypeError(msg) == [name |-> "TypeError", message |-> <<msg>>]

ReferenceError(msg) == [name |-> "ReferenceError", message |-> <<msg>>]

(***************************************************************************)
(* What a run of handler code between two suspension points ends with:     *)
(* a response sent, an outbound call awaited, an exception thrown inside   *)
(* the try block, or an exception that leaves the handler.                 *)
(***************************************************************************)
Send(st, b) == [kind |-> "send", status |-> st, body |-> b]

Await(where, call, ctx, name) ==
    [kind |-> "await", pc |-> where, call |-> call, ctx |-> ctx, endpointName |-> name]

Throw(err, ctx) == [kind |-> "throw", err |-> err, ctx |-> ctx]

Escape(err) == [kind |-> "escape", err |-> err]

\* Lines 191-235: endpoint resolution, parameter merge, the upstream call.
resolveAndFetch(ctx) ==
    LET input == PropOr(ctx, "input", EmptyObject)
        name == PropOr(input, "endpointName", "")
        endpointConfig == EndpointLookup(name)
    IN  IF name = "" \/ endpointConfig = Undefined
        THEN IF IsJsonRpc(ctx)
             THEN Send(200, invalidEndpointRpcResponse(ctx))
             ELSE Send(400, invalidEndpointResponse)
        ELSE Await("await_upstream",
                   Spread([service |-> "endpoint",
                           url |-> PropOr(endpointConfig, "url", "undefined")],
                          requestConfig(endpointConfig, input)),
                   ctx, name)

\* The geocoding call of lines 117-128.
geocodingCall(toolArgs) ==
    [service |-> "geocoding",
     url |-> "https://geocoding-api.open-meteo.com/v1/search",
     params |-> [name |-> toolArgs["location"], count |-> 1,
                 language |-> "en", format |-> "json"],
     timeout |-> 5000]

\* Lines 42-189: the JSON-RPC method switch.
methodSwitch(ctx) ==
    LET method == PropOr(ctx, "method", "undefined") IN
    IF method = "initialize" THEN Send(200, initResponse(ctx))
    ELSE IF method = "tools/list" THEN Send(200, toolsResponse(ctx))
    ELSE IF method = "tools/call"
    THEN IF ~Has(ctx["input"], "queryParams")
         THEN Throw(TypeError("Cannot read properties of undefined (reading 'location')"),
                    ctx)
         ELSE IF NeedsGeocoding(ctx["input"]["queryParams"])
         THEN Await("await_geo", geocodingCall(ctx["input"]["queryParams"]), ctx, "")
         ELSE resolveAndFetch(ctx)
    ELSE Send(200, methodNotFoundResponse(ctx))

\* Lines 31-189: validation, then the method switch or the legacy path.
handlerEntry(requestBody) ==
    LET validation == validateMCPRequest(requestBody) IN
    IF validation["error"]
    THEN Send(400, invalidRequestResponse(validation["details"]))
    ELSE IF IsJsonRpc(validation["value"])
    THEN methodSwitch(validation["value"])
    ELSE resolveAndFetch(validation["value"])

\* afterGeocoding with a retry: a rejected geocoding call is issued again
\* instead of being answered.
afterGeocoding_Retries(ctx, geo) ==
    LET toolArgs == ctx["input"]["queryParams"] IN
    IF ~geo["ok"] THEN Await("await_geo", geocodingCall(toolArgs), ctx, "")
    ELSE IF Has(geo["data"], "results") /\ Len(geo["data"]["results"]) > 0
    THEN LET result == geo["data"]["results"][1]
             located ==
                Spread(toolArgs,
                       [latitude |-> result["latitude"],
                        longitude |-> result["longitude"],
                        location_name |-> <<result["name"], ", ", result["country"]>>])
         IN  resolveAndFetch(Spread(ctx, [input |-> Spread(ctx["input"],
                                                           [queryParams |-> located])]))
    ELSE Send(200, locationNotFoundResponse(ctx, toolArgs))

\* afterGeocoding without the two early returns (lines 153 and 168): a
\* failed or empty geocoding falls through to the weather fetch.
afterGeocoding_FallsThrough(ctx, geo) ==
    LET toolArgs == ctx["input"]["queryParams"] IN
    IF geo["ok"] /\ Has(geo["data"], "results") /\ Len(geo["data"]["results"]) > 0
    THEN LET result == geo["data"]["results"][1]
             located ==
                Spread(toolArgs,
                       [latitude |-> result["latitude"],
                        longitude |-> result["longitude"],
                        location_name |-> <<result["name"], ", ", result["country"]>>])
         IN  resolveAndFetch(Spread(ctx, [input |-> Spread(ctx["input"],
                                                           [queryParams |-> located])]))
    ELSE resolveAndFetch(ctx)

\* A continuation in which the caller's own arguments win over the
\* geocoded coordinates.
afterGeocoding_CallerWins(ctx, geo) ==
    LET toolArgs == ctx["input"]["queryParams"] IN
    IF ~geo["ok"] THEN Send(200, geocodingUnavailableResponse(ctx, geo["err"]))
    ELSE IF Has(geo["data"], "results") /\ Len(geo["data"]["results"]) > 0
    THEN LET result == geo["data"]["results"][1]
             located ==
                Spread([latitude |-> result["latitude"],
                        longitude |-> result["longitude"],
                        location_name |-> <<result["name"], ", ", result["country"]>>],
                       toolArgs)
         IN  resolveAndFetch(Spread(ctx, [input |-> Spread(ctx["input"],
                                                           [queryParams |-> located])]))
    ELSE Send(200, locationNotFoundResponse(ctx, toolArgs))

\* Lines 130-170: the continuation after the geocoding call settles.  geo is
\* [ok |-> TRUE, data |-> geoResponse.data] or [ok |-> FALSE, err |-> geoError].
afterGeocoding(ctx, geo) ==
    LET toolArgs == ctx["input"]["queryParams"] IN
    IF ~geo["ok"] THEN Send(200, geocodingUnavailableResponse(ctx, geo["err"]))
    ELSE IF Has(geo["data"], "results") /\ Len(geo["data"]["results"]) > 0
    THEN LET result == geo["data"]["results"][1]
             located ==
                Spread(toolArgs,
                       [latitude |-> result["latitude"],
                        longitude |-> result["longitude"],
                        location_name |-> <<result["name"], ", ", result["country"]>>])
         IN  resolveAndFetch(Spread(ctx, [input |-> Spread(ctx["input"],
                                                           [queryParams |-> located])]))
    ELSE Send(200, locationNotFoundResponse(ctx, toolArgs))

\* A handler that records a success whether or not the transformer threw.
afterUpstream_RecordsAnyway(ctx, name, data, now) ==
    LET transformed == Transform(EndpointLookup(name), data) IN
    IF IsJsonRpc(ctx) /\ (transformed["threw"] \/ transformed["value"] = Null)
    THEN Throw(TypeError("Cannot read properties of null (reading 'current')"), ctx)
    ELSE IF IsJsonRpc(ctx) THEN Send(200, weatherResponse(ctx, transformed["value"]))
    ELSE Send(200, buildMCPResponse(ctx, PropOr(transformed, "value", Null), name, now))

\* Lines 235-295: the continuation after the upstream call resolves with data.
afterUpstream(ctx, name, data, now) ==
    LET transformed == Transform(EndpointLookup(name), data) IN
    IF transformed["threw"] THEN Throw(TypeError(transformed["message"]), ctx)
    ELSE IF IsJsonRpc(ctx)
    THEN IF transformed["value"] = Null
         THEN Throw(TypeError("Cannot read properties of null (reading 'current')"), ctx)
         ELSE Send(200, weatherResponse(ctx, transformed["value"]))
    ELSE Send(200, buildMCPResponse(ctx, transformed["value"], name, now))

\* JSON ids are written as their JSON text; these are the falsy ones.
FalsyIds == {"0", "\"\"", "null", "false"}

\* Lines 305-356, the catch block's response, with mcpContext bound to ctx.
catchResponse(err, ctx) ==
    LET timedOut == Has(err, "code") /\ err["code"] = "ECONNABORTED"
        answered == Has(err, "response")
        apiReturned == <<"API returned ", Numeral(err["response"]["status"]), ": ",
                         err["response"]["statusText"]>>
    IN
    IF IsJsonRpc(ctx)
    THEN Send(200,
              [jsonrpc |-> "2.0",
               id |-> IF Has(ctx, "id") /\ ctx["id"] \notin FalsyIds
                      THEN ctx["id"] ELSE "null",
               error |->
                  [code |-> IF timedOut THEN -32001
                            ELSE IF answered THEN -32002 ELSE -32000,
                   message |->
                      IF timedOut
                      THEN <<"Request timeout - External API request timed out">>
                      ELSE IF answered THEN <<"External API error - ">> \o apiReturned
                      ELSE <<"Internal server error">>,
                   data |->
                      Spread([details |-> err["message"]],
                             Pick(PropOr(ctx, "input", EmptyObject),
                                  [endpoint |-> "endpointName"]))]])
    ELSE IF timedOut
    THEN Send(408, [error |-> "Request timeout",
                    details |-> <<"External API request timed out">>])
    ELSE IF answered
    THEN Send(502, [error |-> "External API error", details |-> apiReturned])
    ELSE Send(500, [error |-> "Internal server error", details |-> err["message"]])

\* Whether the identifier mcpContext resolves inside the catch block.  It is
\* declared by `const` inside the try block (line 32), so it is scoped to
\* that block: the catch block (lines 296-357) is outside it and no
\* enclosing scope declares the name.
mcpContextInCatchScope == FALSE

\* Lines 296-357.  Reading the unresolvable identifier at line 307 throws a
\* ReferenceError out of the catch block: the async handler's promise
\* rejects and the route (app.post('/mcp', ..., handleMCPRequest)) never
\* looks at it, so nothing is sent.
catchBlock(err, ctx) ==
    IF mcpContextInCatchScope
    THEN catchResponse(err, ctx)
    ELSE Escape(ReferenceError("mcpContext is not defined"))

\* try { ... } catch (err) { ... }
Settle(outcome) ==
    IF outcome["kind"] = "throw"
    THEN catchBlock(outcome["err"], outcome["ctx"])
    ELSE outcome

(***************************************************************************)
(* The environment: request bodies, upstream payloads and failures.        *)
(***************************************************************************)
\* Sequences over S of length at most n.
SeqUpTo(S, n) == UNION {[1..m -> S] : m \in 0..n}

EndpointNameChoices ==
    {"getWeather", "getCurrentWeather", "getUsers", "getPosts",
     "doesNotExist", "constructor", ""}

\* queryParams of a tools/call: a location and/or coordinates.
ToolArguments ==
    {[k \in keys |-> CASE k = "location" -> "London"
                       [] k = "latitude" -> lat
                       [] k = "longitude" -> lon] :
        keys \in SUBSET {"location", "latitude", "longitude"},
        lat \in {0, 51}, lon \in {0, 2}}

\* queryParams that override or extend an endpoint's default parameters.
OverridingParams ==
    {[latitude |-> 51, longitude |-> 2, current_weather |-> FALSE],
     [current_weather |-> FALSE, timezone |-> "auto"]}

\* The input objects of requests; withParams are the queryParams offered.
Inputs(withParams) ==
    {[k \in {"endpointName"} |-> n] : n \in EndpointNameChoices}
    \cup {[endpointName |-> n, queryParams |-> q] :
            n \in EndpointNameChoices, q \in withParams}
    \cup {[k \in {"queryParams"} |-> q] : q \in withParams}

\* Inputs that carry authHeaders, one of them with a User-Agent of its own.
AuthHeaderChoices ==
    {[h \in {"Authorization", "X-API-Key"} |->
         IF h = "Authorization" THEN "Bearer test-token" ELSE "test-key"],
     [h \in {"User-Agent"} |-> "caller-agent/2.0"],
     EmptyObject}

AuthenticatedInputs ==
    {[endpointName |-> "getUsers", authHeaders |-> h] : h \in AuthHeaderChoices}

\* The inputs of chained requests.
ChainedInputs == {[endpointName |-> n] : n \in {"getUsers", "getPosts", "doesNotExist"}}

\* Tool records a caller submits that no server response produced.
CallerTools ==
    {[name |-> "previous_tool", timestamp |-> IsoString(0, form)] : form \in IsoForms}
    \cup {[name |-> "previous_tool"], [timestamp |-> IsoString(0, "extended")],
          [name |-> "previous_tool", output |-> [success |-> TRUE]]}

LegacyParams ==
    OverridingParams \cup {[latitude |-> 51, longitude |-> 2], EmptyObject}

\* Bodies in the legacy format: {input?, tools?, metadata?}.
LegacyRequests ==
    {Spread(Spread(i, t), m) :
        i \in {EmptyObject} \cup {[input |-> x] : x \in Inputs(LegacyParams)}
                           \cup {[input |-> x] : x \in AuthenticatedInputs},
        t \in {EmptyObject} \cup {[tools |-> x] : x \in SeqUpTo(CallerTools, MaxTools)},
        m \in {EmptyObject, [metadata |-> [session_id |-> "s1"]]}}

\* Request ids, written as their JSON text: a number, zero, the empty
\* string and null.
IdChoices == {"7", "0", "\"\"", "null"}

MethodChoices == {"initialize", "tools/list", "tools/call", "ping"}

\* Bodies in the JSON-RPC format: metadata.format = 'jsonrpc', with the
\* top-level id and method the handler reads.
JsonRpcRequests ==
    {Spread(Spread(Spread(i, id), me), [metadata |-> [format |-> "jsonrpc"]]) :
        i \in {EmptyObject}
              \cup {[input |-> x] : x \in Inputs(ToolArguments \cup OverridingParams)},
        id \in {EmptyObject} \cup {[id |-> x] : x \in IdChoices},
        me \in {EmptyObject} \cup {[method |-> x] : x \in MethodChoices}}

\* Bodies in the JSON-RPC 2.0 wire shape {jsonrpc, id, method, params}.
WireRequests ==
    {[jsonrpc |-> "2.0", id |-> id, method |-> me, params |-> EmptyObject] :
        id \in IdChoices, me \in MethodChoices}

Requests == LegacyRequests \cup JsonRpcRequests \cup WireRequests

\* Payloads of the weather provider.
CurrentWeather ==
    [temperature |-> 22, windspeed |-> 10, winddirection |-> 180,
     weathercode |-> 3, time |-> "2025-06-08T14:00", is_day |-> 1]

Daily ==
    [time |-> <<"2025-06-08", "2025-06-09">>,
     temperature_2m_max |-> <<25, 23>>,
     temperature_2m_min |-> <<18, 16>>,
     weathercode |-> <<3, 1>>]

WeatherPayloads ==
    {Spread(Spread([latitude |-> 40, longitude |-> -74,
                    timezone |-> "America/New_York", elevation |-> 10], cw), d) :
        cw \in {EmptyObject, [current_weather |-> CurrentWeather]},
        d \in {EmptyObject, [daily |-> Daily]}}

\* Payloads of the placeholder test API.
RawUser ==
    [id |-> 1, name |-> "Leanne Graham", username |-> "Bret",
     email |-> "Sincere@april.biz", phone |-> "1-770-736-8031",
     address |-> [street |-> "Kulas Light", city |-> "Gwenborough"],
     company |-> [name |-> "Romaguera-Crona"]]

UsersPayloads ==
    {Array(<<RawUser>>), Array(<<>>),
     Array(<<[id |-> 2, name |-> "Ervin Howell", email |-> "Shanna@melissa.tv"]>>)}

PostsPayloads == {Array(<<[id |-> 1, userId |-> 1, title |-> "t", body |-> "b"]>>)}

\* What a GET of url may resolve with.  A GET without a url (the url of an
\* inherited member is undefined) never resolves: axios rejects it.
PayloadsOf(url) ==
    IF url = "undefined" THEN {}
    ELSE (IF url = endpoints["getWeather"]["url"] THEN WeatherPayloads
          ELSE IF url = endpoints["getUsers"]["url"] THEN UsersPayloads
          ELSE IF url = endpoints["getPosts"]["url"] THEN PostsPayloads
          ELSE {})
         \cup {Null}

\* What a GET with the given timeout may reject with.
RequestErrors(ms) ==
    {TimeoutError(ms), HttpError(503, "Service Unavailable"), NetworkError}

\* What the geocoding search may resolve with.
GeocodingPayloads ==
    {[results |-> <<[latitude |-> 51, longitude |-> 0,
                     name |-> "London", country |-> "United Kingdom"]>>],
     [results |-> <<>>],
     [generationtime_ms |-> 1]}

(***************************************************************************)
(* The handler as a state machine.  JavaScript runs the handler without    *)
(* interruption between two awaits, so each action is one such run.        *)
(***************************************************************************)
\* The effect of a run that ended with `outcome`, for a request that had
\* sent `sentBefore` responses and issued `callsBefore`.
Finish(outcome, sentBefore, callsBefore) ==
    /\ pc' = (CASE outcome["kind"] = "send" -> "responded"
                [] outcome["kind"] = "await" -> outcome["pc"]
                [] outcome["kind"] = "escape" -> "rejected")
    /\ status' = IF outcome["kind"] = "send" THEN outcome["status"] ELSE 0
    /\ resBody' = IF outcome["kind"] = "send" THEN outcome["body"] ELSE EmptyObject
    /\ sent' = IF outcome["kind"] = "send" THEN sentBefore + 1 ELSE sentBefore
    /\ calls' = IF outcome["kind"] = "await"
                THEN Append(callsBefore, outcome["call"]) ELSE callsBefore
    /\ mcpContext' = IF outcome["kind"] = "await" THEN outcome["ctx"] ELSE EmptyObject
    /\ endpointName' = IF outcome["kind"] = "await" THEN outcome["endpointName"] ELSE ""
    /\ thrown' = IF outcome["kind"] = "escape" THEN outcome["err"] ELSE NoError

\* A request arrives: lines 17-235 up to the first await or response.
HandleMCPRequest ==
    /\ pc = "idle"
    /\ \E requestBody \in Requests :
        /\ body' = requestBody
        /\ Finish(Settle(handlerEntry(requestBody)), 0, <<>>)
    /\ upstreamError' = NoError
    /\ upstreamData' = <<>>
    /\ geoResult' = EmptyObject
    /\ UNCHANGED <<clock, chainVars, concurrentVars, appVars, sanitizeVars>>

\* The caller resubmits the tools and metadata of a returned context with a
\* new input (a chained request).
HandleChainedRequest ==
    /\ pc = "responded"
    /\ status = 200
    /\ Has(resBody, "tools")
    /\ Len(resBody["tools"]) < MaxChain
    /\ \E input \in ChainedInputs :
        LET requestBody == [input |-> input,
                            tools |-> resBody["tools"],
                            metadata |-> resBody["metadata"]]
        IN  /\ body' = requestBody
            /\ Finish(Settle(handlerEntry(requestBody)), 0, <<>>)
    /\ upstreamError' = NoError
    /\ upstreamData' = <<>>
    /\ geoResult' = EmptyObject
    /\ UNCHANGED <<clock, chainVars, concurrentVars, appVars, sanitizeVars>>

\* The geocoding call resolves (lines 130-154, then 191-235).
GeocodingResolves ==
    /\ pc = "await_geo"
    /\ \E data \in GeocodingPayloads :
        /\ geoResult' = [ok |-> TRUE, data |-> data]
        /\ Finish(Settle(afterGeocoding(mcpContext, geoResult')), sent, calls)
    /\ UNCHANGED <<body, upstreamError, upstreamData, clock, chainVars, concurrentVars, appVars, sanitizeVars>>

\* The geocoding call rejects (lines 155-169).
GeocodingRejects ==
    /\ pc = "await_geo"
    /\ \E err \in RequestErrors(5000) :
        /\ geoResult' = [ok |-> FALSE, err |-> err]
        /\ Finish(Settle(afterGeocoding(mcpContext, geoResult')), sent, calls)
    /\ UNCHANGED <<body, upstreamError, upstreamData, clock, chainVars, concurrentVars, appVars, sanitizeVars>>

\* The upstream call resolves (lines 235-295).
UpstreamResolves ==
    /\ pc = "await_upstream"
    /\ \E data \in PayloadsOf(calls[Len(calls)]["url"]) :
        /\ upstreamData' = <<data>>
        /\ Finish(Settle(afterUpstream(mcpContext, endpointName, data, toISOString(clock))),
                  sent, calls)
    /\ UNCHANGED <<body, upstreamError, geoResult, clock, chainVars, concurrentVars, appVars, sanitizeVars>>

\* The upstream call rejects (lines 296-357).
UpstreamRejects ==
    /\ pc = "await_upstream"
    /\ \E err \in RequestErrors(10000) :
        /\ upstreamError' = err
        /\ Finish(catchBlock(err, mcpContext), sent, calls)
    /\ UNCHANGED <<body, upstreamData, geoResult, clock, chainVars, concurrentVars, appVars, sanitizeVars>>

\* Time passes.
Tick ==
    /\ clock < MaxClock
    /\ clock' = clock + 1
    /\ UNCHANGED <<handlerVars, chainVars, concurrentVars, appVars, sanitizeVars>>

Init ==
    /\ pc = "idle"
    /\ body = EmptyObject
    /\ mcpContext = EmptyObject
    /\ endpointName = ""
    /\ status = 0
    /\ resBody = EmptyObject
    /\ sent = 0
    /\ calls = <<>>
    /\ thrown = NoError
    /\ upstreamError = NoError
    /\ upstreamData = <<>>
    /\ geoResult = EmptyObject
    /\ clock = 0
    /\ original = EmptyObject
    /\ context = EmptyObject
    /\ applied = <<>>
    /\ invocations = <<>>
    /\ req = EmptyObject
    /\ res = [status |-> 0]
    /\ stage = "listening"
    /\ rawInput = <<>>
    /\ sanitized = <<>>

Next ==
    \/ HandleMCPRequest
    \/ HandleChainedRequest
    \/ GeocodingResolves
    \/ GeocodingRejects
    \/ UpstreamResolves
    \/ UpstreamRejects
    \/ Tick

Spec == Init /\ [][Next]_vars

(***************************************************************************)
(* The builders on their own: buildMCPResponse and buildMCPErrorResponse   *)
(* applied in sequence, each to the context the previous one returned.     *)
(***************************************************************************)
ChainInput == [endpointName |-> "getWeather",
               queryParams |-> [latitude |-> 40, longitude |-> -74]]

\* An input that itself carries an endpoint key: the schema allows unknown
\* keys, so a caller can submit it.
EndpointKeyedInput == Spread(ChainInput, [endpoint |-> "getPosts"])

\* Tool records already in the context a chain starts from.
EarlierTools ==
    {[name |-> "previous_tool", output |-> [data |-> "previous data"],
      timestamp |-> IsoString(0, "short")],
     [name |-> "fetch_endpoint",
      output |-> [success |-> FALSE, error |-> "Earlier error",
                  metadata |-> [endpoint |-> "getPosts",
                                timestamp |-> IsoString(0, "extended")]],
      timestamp |-> IsoString(0, "extended")]}

\* Contexts a chain starts from: tools and metadata present or absent, and
\* tool_count absent or equal to the length of tools.
InitialContexts ==
    {Spread(Spread([input |-> ChainInput], t), m) :
        t \in {EmptyObject} \cup {[tools |-> x] : x \in SeqUpTo(EarlierTools, MaxTools)},
        m \in {EmptyObject, [metadata |-> [session_id |-> "test-session"]],
               [metadata |-> [last_error |-> "Earlier error"]]}}
    \cup
    {[input |-> ChainInput, tools |-> x,
      metadata |-> [session_id |-> "test-session", tool_count |-> Len(x)]] :
        x \in SeqUpTo(EarlierTools, MaxTools)}
    \cup
    {[input |-> EndpointKeyedInput],
     [input |-> EndpointKeyedInput, metadata |-> [session_id |-> "test-session"]]}

ChainEndpoints == {"getWeather", "endpoint2"}

ChainErrors == {"First error", "Second error"}

ChainData == {Null} \cup PostsPayloads

ApplyBuildMCPResponse ==
    /\ Len(applied) < MaxChain
    /\ \E data \in ChainData, endpoint \in ChainEndpoints :
        /\ context' = buildMCPResponse(context, data, endpoint, toISOString(clock))
        /\ applied' = Append(applied,
                [builder |-> "buildMCPResponse",
                 endpoint |-> endpoint,
                 argument |-> context,
                 argumentAfter |->
                    argumentAfterBuild(context, context'["tools"][Len(context'["tools"])])])
    /\ UNCHANGED <<original, handlerVars, clock, concurrentVars, appVars, sanitizeVars>>

ApplyBuildMCPErrorResponse ==
    /\ Len(applied) < MaxChain
    /\ \E errorMessage \in ChainErrors, endpoint \in ChainEndpoints :
        /\ context' = buildMCPErrorResponse(context, errorMessage, endpoint,
                                            toISOString(clock))
        /\ applied' = Append(applied,
                [builder |-> "buildMCPErrorResponse",
                 endpoint |-> endpoint,
                 error |-> errorMessage,
                 argument |-> context,
                 argumentAfter |->
                    argumentAfterBuild(context, context'["tools"][Len(context'["tools"])])])
    /\ UNCHANGED <<original, handlerVars, clock, concurrentVars, appVars, sanitizeVars>>

InitChain ==
    /\ pc = "idle"
    /\ body = EmptyObject
    /\ mcpContext = EmptyObject
    /\ endpointName = ""
    /\ status = 0
    /\ resBody = EmptyObject
    /\ sent = 0
    /\ calls = <<>>
    /\ thrown = NoError
    /\ upstreamError = NoError
    /\ upstreamData = <<>>
    /\ geoResult = EmptyObject
    /\ clock = 0
    /\ original \in InitialContexts
    /\ context = original
    /\ applied = <<>>
    /\ invocations = <<>>
    /\ req = EmptyObject
    /\ res = [status |-> 0]
    /\ stage = "listening"
    /\ rawInput = <<>>
    /\ sanitized = <<>>

NextChain ==
    \/ ApplyBuildMCPResponse
    \/ ApplyBuildMCPErrorResponse
    \/ Tick

SpecChain == InitChain /\ [][NextChain]_vars

(***************************************************************************)
(* Concurrent requests.  Node runs one handler at a time until it awaits,  *)
(* so invocations interleave at their suspension points only.  Every       *)
(* binding of the handler (mcpContext, endpointName, toolArgs, ...) is     *)
(* declared inside the function, so each invocation has its own; the only  *)
(* module-level value it reads is the endpoint registry, which it never    *)
(* writes.  What the invocations do share is the process.                  *)
(***************************************************************************)
MaxConcurrent == 2     \* number of requests in flight together

Slots == 1..MaxConcurrent

\* Requests with distinct endpoints, params, tools and metadata.
ConcurrentRequests ==
    {[input |-> [endpointName |-> "getUsers"],
      tools |-> <<[name |-> "previous_tool"]>>,
      metadata |-> [session_id |-> "s1"]],
     [input |-> [endpointName |-> "getPosts"],
      metadata |-> [session_id |-> "s2"]],
     [input |-> [endpointName |-> "getWeather",
                 queryParams |-> [latitude |-> 51, longitude |-> 2]]],
     [input |-> [endpointName |-> "getWeather",
                 queryParams |-> [location |-> "London"]],
      metadata |-> [format |-> "jsonrpc"], method |-> "tools/call", id |-> "7"],
     [input |-> [endpointName |-> "getCurrentWeather",
                 queryParams |-> [latitude |-> 0, longitude |-> 2]],
      metadata |-> [format |-> "jsonrpc"], method |-> "tools/call", id |-> "0"]}

\* How the calls of concurrent requests settle: one payload per service and
\* one failure, which is enough to tell the requests' responses apart.
ConcurrentPayloadsOf(url) ==
    IF url = endpoints["getWeather"]["url"]
    THEN {[latitude |-> 40, longitude |-> -74, timezone |-> "America/New_York",
           current_weather |-> CurrentWeather, daily |-> Daily]}
    ELSE IF url = endpoints["getUsers"]["url"] THEN {Array(<<RawUser>>)}
    ELSE PostsPayloads

ConcurrentGeocodingPayloads ==
    {g \in GeocodingPayloads : Has(g, "results")}

ConcurrentErrors(ms) == {TimeoutError(ms)}

\* An invocation that has not started.
NotStarted ==
    [pc |-> "idle", body |-> EmptyObject, mcpContext |-> EmptyObject,
     endpointName |-> "", status |-> 0, resBody |-> EmptyObject,
     calls |-> <<>>, thrown |-> NoError, geoResult |-> EmptyObject,
     upstreamResult |-> EmptyObject]

\* The invocation after a run of its code that ended with `outcome`.
Resume(inv, outcome) ==
    [inv EXCEPT
        !.pc = (CASE outcome["kind"] = "send" -> "responded"
                  [] outcome["kind"] = "await" -> outcome["pc"]
                  [] outcome["kind"] = "escape" -> "rejected"),
        !.status = IF outcome["kind"] = "send" THEN outcome["status"] ELSE 0,
        !.resBody = IF outcome["kind"] = "send" THEN outcome["body"] ELSE EmptyObject,
        !.calls = IF outcome["kind"] = "await" THEN Append(@, outcome["call"]) ELSE @,
        !.mcpContext = IF outcome["kind"] = "await" THEN outcome["ctx"] ELSE @,
        !.endpointName = IF outcome["kind"] = "await" THEN outcome["endpointName"] ELSE @,
        !.thrown = IF outcome["kind"] = "escape" THEN outcome["err"] ELSE NoError]

\* The bindings the continuation of invocation r sees when it resumes: its
\* own (const mcpContext at line 32 and const endpointName at line 192 are
\* scoped to the invocation).
LocalsOf(r) ==
    [mcpContext |-> invocations[r]["mcpContext"],
     endpointName |-> invocations[r]["endpointName"]]

\* A request arrives while others may be suspended.
ConcurrentRequestArrives ==
    /\ \E r \in Slots, requestBody \in ConcurrentRequests :
        /\ invocations[r]["pc"] = "idle"
        /\ invocations' =
              [invocations EXCEPT ![r] =
                  Resume([@ EXCEPT !.body = requestBody],
                         Settle(handlerEntry(requestBody)))]
    /\ UNCHANGED <<handlerVars, clock, chainVars, appVars, sanitizeVars>>

ConcurrentGeocodingResolves ==
    /\ \E r \in Slots, data \in ConcurrentGeocodingPayloads :
        LET geo == [ok |-> TRUE, data |-> data] IN
        /\ invocations[r]["pc"] = "await_geo"
        /\ invocations' =
              [invocations EXCEPT ![r] =
                  Resume([@ EXCEPT !.geoResult = geo],
                         Settle(afterGeocoding(LocalsOf(r)["mcpContext"], geo)))]
    /\ UNCHANGED <<handlerVars, clock, chainVars, appVars, sanitizeVars>>

ConcurrentGeocodingRejects ==
    /\ \E r \in Slots, err \in ConcurrentErrors(5000) :
        LET geo == [ok |-> FALSE, err |-> err] IN
        /\ invocations[r]["pc"] = "await_geo"
        /\ invocations' =
              [invocations EXCEPT ![r] =
                  Resume([@ EXCEPT !.geoResult = geo],
                         Settle(afterGeocoding(LocalsOf(r)["mcpContext"], geo)))]
    /\ UNCHANGED <<handlerVars, clock, chainVars, appVars, sanitizeVars>>

ConcurrentUpstreamResolves ==
    /\ \E r \in Slots :
        /\ invocations[r]["pc"] = "await_upstream"
        /\ \E data \in ConcurrentPayloadsOf(
                        invocations[r]["calls"][Len(invocations[r]["calls"])]["url"]) :
            invocations' =
              [invocations EXCEPT ![r] =
                  Resume([@ EXCEPT !.upstreamResult =
                                      [ok |-> TRUE, data |-> data, at |-> clock]],
                         Settle(afterUpstream(LocalsOf(r)["mcpContext"],
                                              LocalsOf(r)["endpointName"],
                                              data, toISOString(clock))))]
    /\ UNCHANGED <<handlerVars, clock, chainVars, appVars, sanitizeVars>>

ConcurrentUpstreamRejects ==
    /\ \E r \in Slots, err \in ConcurrentErrors(10000) :
        /\ invocations[r]["pc"] = "await_upstream"
        /\ invocations' =
              [invocations EXCEPT ![r] =
                  Resume([@ EXCEPT !.upstreamResult = [ok |-> FALSE, err |-> err]],
                         catchBlock(err, LocalsOf(r)["mcpContext"]))]
    /\ UNCHANGED <<handlerVars, clock, chainVars, appVars, sanitizeVars>>

\* An error that left a handler is an unhandled promise rejection (the
\* route passes handleMCPRequest to Express 4 as it is, which ignores the
\* promise it returns).  The logger is created with rejectionHandlers and
\* the default exitOnError, so it logs the rejection and exits the process
\* (without such a handler Node >= 15 exits by itself): the sockets of the
\* requests still suspended are closed and they are never answered.
UnhandledRejectionExits ==
    /\ \E r \in Slots : invocations[r]["pc"] = "rejected"
    /\ \E r \in Slots : invocations[r]["pc"] \in {"await_geo", "await_upstream"}
    /\ invocations' =
          [r \in Slots |->
              IF invocations[r]["pc"] \in {"await_geo", "await_upstream"}
              THEN [invocations[r] EXCEPT !.pc = "aborted"]
              ELSE invocations[r]]
    /\ UNCHANGED <<handlerVars, clock, chainVars, appVars, sanitizeVars>>

InitConcurrent ==
    /\ pc = "idle"
    /\ body = EmptyObject
    /\ mcpContext = EmptyObject
    /\ endpointName = ""
    /\ status = 0
    /\ resBody = EmptyObject
    /\ sent = 0
    /\ calls = <<>>
    /\ thrown = NoError
    /\ upstreamError = NoError
    /\ upstreamData = <<>>
    /\ geoResult = EmptyObject
    /\ clock = 0
    /\ original = EmptyObject
    /\ context = EmptyObject
    /\ applied = <<>>
    /\ invocations = [r \in Slots |-> NotStarted]
    /\ req = EmptyObject
    /\ res = [status |-> 0]
    /\ stage = "listening"
    /\ rawInput = <<>>
    /\ sanitized = <<>>

NextConcurrent ==
    \/ ConcurrentRequestArrives
    \/ ConcurrentGeocodingResolves
    \/ ConcurrentGeocodingRejects
    \/ ConcurrentUpstreamResolves
    \/ ConcurrentUpstreamRejects
    \/ UnhandledRejectionExits
    \/ Tick

SpecConcurrent == InitConcurrent /\ [][NextConcurrent]_vars

(***************************************************************************)
(* The Express app (index.js): the middleware in front of POST /mcp and    *)
(* POST /auth/login, the authentication helpers (middleware/auth.js), the  *)
(* login validation (utils/validation.js), the authentication log          *)
(* (utils/logger.js) and handleLogin (controllers/mcpController.js).       *)
(* A JavaScript string that reaches a place where the code expects an      *)
(* object is a tagged record, like null and arrays.                        *)
(***************************************************************************)
Str(s) == [type |-> "string", value |-> s]

IsStr(v) == Has(v, "type") /\ v["type"] = "string"

\* const users = [...]: the in-memory user store.
users ==
    <<[id |-> 1, username |-> "admin", password |-> "$2a$10$xyz...",
       role |-> "admin", apiKey |-> "mcp-admin-key-12345"],
      [id |-> 2, username |-> "user", password |-> "$2a$10$abc...",
       role |-> "user", apiKey |-> "mcp-user-key-67890"]>>

\* users.find((u) => u[key] === value): the first such user, or undefined.
FindUser(key, value) ==
    IF \E i \in 1..Len(users) : users[i][key] = value
    THEN users[CHOOSE i \in 1..Len(users) :
                  /\ users[i][key] = value
                  /\ \A j \in 1..(i - 1) : users[j][key] # value]
    ELSE Undefined

\* jwt.sign of the user's id, username and role: one token per user.
generateToken(u) ==
    CASE u["username"] = "admin" -> "jwt.admin"
      [] u["username"] = "user" -> "jwt.user"

\* jwt.verify succeeds on exactly the tokens jwt.sign produced.
VerifiableTokens == {generateToken(users[i]) : i \in 1..Len(users)}

\* bcrypt.compare(password, hash): the stored hashes are placeholders, not
\* bcrypt hashes, so no password compares equal to them.
comparePassword(password, hash) == FALSE

\* authenticateUser: look the user up by name, accept the stored password
\* string itself or a bcrypt match.
authenticateUser(username, password) ==
    LET found == FindUser("username", username)
    IN  IF found = Undefined THEN Null
        ELSE IF found["password"] = password
                \/ comparePassword(password, found["password"])
        THEN found
        ELSE Null

\* What the login schema knows of a string: its length and whether it is
\* alphanumeric.
StringFacts ==
    [s \in {"admin", "user", "ab", "no body", "$2a$10$xyz...", "secret1", "pw"} |->
        CASE s = "admin" -> [length |-> 5, alphanum |-> TRUE]
          [] s = "user" -> [length |-> 4, alphanum |-> TRUE]
          [] s = "ab" -> [length |-> 2, alphanum |-> TRUE]
          [] s = "no body" -> [length |-> 7, alphanum |-> FALSE]
          [] s = "$2a$10$xyz..." -> [length |-> 13, alphanum |-> FALSE]
          [] s = "secret1" -> [length |-> 7, alphanum |-> TRUE]
          [] s = "pw" -> [length |-> 2, alphanum |-> TRUE]]

\* authSchemas.login.validate(data, {abortEarly: false, stripUnknown: true}).
LoginDetails(data) ==
    IF IsStr(data) \/ IsArray(data) \/ data = Null
    THEN <<"\"value\" must be of type object">>
    ELSE (IF ~Has(data, "username") THEN <<"\"username\" is required">>
          ELSE IF ~StringFacts[data["username"]]["alphanum"]
          THEN <<"Username must contain only alphanumeric characters">>
          ELSE IF StringFacts[data["username"]]["length"] < 3
          THEN <<"Username must be at least 3 characters long">>
          ELSE IF StringFacts[data["username"]]["length"] > 30
          THEN <<"Username cannot exceed 30 characters">>
          ELSE <<>>)
         \o
         (IF ~Has(data, "password") THEN <<"\"password\" is required">>
          ELSE IF StringFacts[data["password"]]["length"] < 6
          THEN <<"Password must be at least 6 characters long">>
          ELSE IF StringFacts[data["password"]]["length"] > 128
          THEN <<"Password cannot exceed 128 characters">>
          ELSE <<>>)

loginSchemaValidate(data) ==
    IF LoginDetails(data) # <<>>
    THEN [error |-> [details |-> LoginDetails(data)], value |-> data]
    ELSE [value |-> Spread([remember |-> FALSE],
                           Pick(data, [username |-> "username",
                                       password |-> "password",
                                       remember |-> "remember"]))]

\* The property key a value is converted to when it indexes an object:
\* a string is itself, an array is its elements joined, any other object
\* is "[object Object]".
ToPropertyKey(v) ==
    IF IsStr(v) THEN v["value"]
    ELSE IF IsArray(v) /\ Len(v["items"]) = 1 THEN v["items"][1]
    ELSE "[object Object]"

AuthSchemaKeys == {"login", "apiKey"}

\* validateAuthRequest(type, data): authSchemas[type], then its validate.
validateAuthRequest(type, data) ==
    LET key == ToPropertyKey(type)
    IN  IF key = "login" THEN Returned(loginSchemaValidate(data))
        ELSE IF key \in AuthSchemaKeys
        THEN Returned([error |-> [details |-> <<"\"value\" must be of type object">>],
                       value |-> data])
        ELSE IF key \in ObjectPrototypeKeys
        THEN Threw(TypeError("schema.validate is not a function"))
        ELSE Returned([error |-> [message |-> <<"Unknown authentication type: ", key>>],
                       value |-> Null])

\* An Express request object: it has get(), ip, path, headers, body.
IsExpressRequest(r) == Has(r, "headers")

\* logAuth(action, req, success, additionalData): builds the log record
\* from req.ip, req.get('User-Agent') and req.path.
logAuth(action, r, success, additionalData) ==
    IF IsExpressRequest(r) THEN Returned(Undefined)
    ELSE Threw(TypeError("req.get is not a function"))

\* handleLogin, lines 385-399: the user was authenticated.
loginSucceeded(r, found, username) ==
    LET logged == logAuth("LOGIN_SUCCESS", r["ip"], Str(username),
                          Str("User logged in successfully"))
    IN  IF logged["threw"] THEN Throw(logged["message"], EmptyObject)
        ELSE Send(200, [success |-> TRUE,
                        message |-> "Login successful",
                        token |-> generateToken(found),
                        user |-> Pick(found, [id |-> "id", username |-> "username",
                                              role |-> "role"]),
                        expiresIn |-> "24h"])

\* handleLogin, lines 364-399: the try block.
loginTry(r) ==
    LET validated == validateAuthRequest(r["body"], Str("login"))
    IN  IF validated["threw"] THEN Throw(validated["message"], EmptyObject)
        ELSE LET result == validated["value"]
             IN  IF Has(result, "error")
                 THEN LET logged == logAuth("LOGIN_FAILED", r["ip"], Null,
                                            Str("Invalid request format"))
                      IN  IF logged["threw"] THEN Throw(logged["message"], EmptyObject)
                          ELSE IF ~Has(result["error"], "details")
                          THEN Throw(TypeError("Cannot read properties of undefined (reading 'map')"),
                                     EmptyObject)
                          ELSE Send(400, [error |-> "Invalid login request",
                                          details |-> result["error"]["details"]])
                 ELSE LET username == result["value"]["username"]
                          password == result["value"]["password"]
                          found == authenticateUser(username, password)
                      IN  IF found = Null
                          THEN LET logged == logAuth("LOGIN_FAILED", r["ip"], Str(username),
                                                     Str("Invalid credentials"))
                               IN  IF logged["threw"]
                                   THEN Throw(logged["message"], EmptyObject)
                                   ELSE Send(401, [error |-> "Authentication failed",
                                                   message |-> "Invalid username or password"])
                          ELSE loginSucceeded(r, found, username)

\* handleLogin, lines 400-408: the catch block.
loginCatch(r, err) ==
    LET logged == logAuth("LOGIN_ERROR", r["ip"], Undefined, err["message"])
    IN  IF logged["threw"] THEN Escape(logged["message"])
        ELSE Send(500, [error |-> "Internal server error",
                        message |-> "Login failed due to server error"])

\* handleLogin: the try block, and the catch block on what it throws.
handleLogin(r) ==
    LET tried == loginTry(r)
    IN  IF tried["kind"] = "throw" THEN loginCatch(r, tried["err"]) ELSE tried

\* authenticateAPIKey: the outcome for the request: 401 without a key, 403
\* for an unknown key, next() for a stored one.
authenticateAPIKey(r) ==
    IF ~Has(r["headers"], "x-api-key")
    THEN Send(401, [error |-> "Access denied", message |-> "API key required"])
    ELSE IF FindUser("apiKey", r["headers"]["x-api-key"]) = Undefined
    THEN Send(403, [error |-> "Invalid API key",
                    message |-> "API key not found or inactive"])
    ELSE [kind |-> "next"]

\* The request's Authorization header carries a token jwt.verify accepts.
HasValidToken(r) ==
    /\ Has(r["headers"], "authorization")
    /\ Len(r["headers"]["authorization"]) >= 2
    /\ r["headers"]["authorization"][2] \in VerifiableTokens

\* The request's X-API-Key header is the key of a stored user.
HasValidApiKey(r) == authenticateAPIKey(r)["kind"] = "next"

\* userAgent.includes('vscode') || userAgent.includes('mcp-client')
isVSCodeMCP(r) ==
    PropOr(r["headers"], "user-agent", "") \in {"vscode/1.90", "mcp-client/0.1"}

\* The requests a client may send.
HeaderChoices ==
    {Spread(Spread(k, a), u) :
        k \in {EmptyObject} \cup {[h \in {"x-api-key"} |-> v] :
                  v \in {"mcp-admin-key-12345", "mcp-user-key-67890", "not-a-key"}},
        a \in {EmptyObject} \cup {[h \in {"authorization"} |-> v] :
                  v \in {<<"Bearer", "jwt.admin">>, <<"Bearer", "forged">>, <<"Bearer">>}},
        u \in {EmptyObject} \cup {[h \in {"user-agent"} |-> v] :
                  v \in {"vscode/1.90", "curl/8.0"}}}

LoginBodies ==
    {[username |-> "admin", password |-> "$2a$10$xyz..."],
     [username |-> "admin", password |-> "secret1"],
     [username |-> "no body", password |-> "pw"],
     [username |-> "ab"],
     EmptyObject,
     Array(<<"login">>),
     Array(<<"constructor">>)}

McpBodies ==
    {EmptyObject,
     [input |-> [endpointName |-> "getPosts"]],
     [jsonrpc |-> "2.0", id |-> "7", method |-> "tools/list"]}

AppRequests ==
    {[method |-> "POST", path |-> p, ip |-> Str("::1"), headers |-> h, body |-> b] :
        p \in {"/mcp"}, h \in HeaderChoices, b \in McpBodies}
    \cup
    {[method |-> "POST", path |-> p, ip |-> Str("::1"), headers |-> h, body |-> b] :
        p \in {"/auth/login"}, h \in HeaderChoices, b \in LoginBodies}

\* res.status(st).json(b)
Respond(st, b) ==
    /\ res' = [res EXCEPT !.status = st] @@ [body |-> b]
    /\ stage' = "responded"

\* A request reaches the app; app.use(generalLimiter) is its first stop.
RequestArrives ==
    /\ stage = "listening"
    /\ \E r \in AppRequests : req' = r
    /\ stage' = "generalLimiter"
    /\ UNCHANGED <<res, handlerVars, clock, chainVars, concurrentVars, sanitizeVars>>

\* app.use(generalLimiter): 429 once the caller's window is used up,
\* otherwise on to the route's own middleware.
GeneralLimiter ==
    /\ stage = "generalLimiter"
    /\ \E usedUp \in BOOLEAN :
        IF usedUp
        THEN Respond(429, [error |-> "Too many requests",
                           message |-> "Rate limit exceeded. Try again later.",
                           retryAfter |-> "15 minutes"])
        ELSE /\ stage' = (IF req["path"] = "/mcp" THEN "mcpLimiter" ELSE "authLimiter")
             /\ UNCHANGED res
    /\ UNCHANGED <<req, handlerVars, clock, chainVars, concurrentVars, sanitizeVars>>

\* app.post('/mcp', mcpLimiter, ...)
McpLimiter ==
    /\ stage = "mcpLimiter"
    /\ \E usedUp \in BOOLEAN :
        IF usedUp
        THEN Respond(429, [error |-> "MCP rate limit exceeded",
                           message |-> "Too many MCP requests. Please slow down.",
                           retryAfter |-> "5 minutes"])
        ELSE /\ stage' = "clientDetection"
             /\ UNCHANGED res
    /\ UNCHANGED <<req, handlerVars, clock, chainVars, concurrentVars, sanitizeVars>>

\* app.post('/mcp', ..., (req, res, next) => {...}, handleMCPRequest): the
\* client detection sets three headers for a VS Code client and calls
\* next(), which enters handleMCPRequest.
ClientDetection ==
    /\ stage = "clientDetection"
    /\ res' = (IF isVSCodeMCP(req)
               THEN res @@ [headers |-> [h \in {"X-MCP-Transport"} |-> "http"]]
               ELSE res)
    /\ stage' = "handleMCPRequest"
    /\ UNCHANGED <<req, handlerVars, clock, chainVars, concurrentVars, sanitizeVars>>

\* app.post('/auth/login', authLimiter, handleLogin)
AuthLimiter ==
    /\ stage = "authLimiter"
    /\ \E usedUp \in BOOLEAN :
        IF usedUp
        THEN Respond(429, [error |-> "Too many authentication attempts",
                           message |-> "Too many login attempts. Try again later.",
                           retryAfter |-> "15 minutes"])
        ELSE /\ stage' = "handleLogin"
             /\ UNCHANGED res
    /\ UNCHANGED <<req, handlerVars, clock, chainVars, concurrentVars, sanitizeVars>>

\* handleLogin runs: it answers, or an error leaves it and the promise of
\* the async handler rejects with nobody to catch it.
HandleLogin ==
    /\ stage = "handleLogin"
    /\ LET outcome == handleLogin(req)
       IN  IF outcome["kind"] = "send"
           THEN Respond(outcome["status"], outcome["body"])
           ELSE /\ stage' = "rejected"
                /\ res' = res @@ [thrown |-> outcome["err"]]
    /\ UNCHANGED <<req, handlerVars, clock, chainVars, concurrentVars, sanitizeVars>>

InitApp ==
    /\ pc = "idle"
    /\ body = EmptyObject
    /\ mcpContext = EmptyObject
    /\ endpointName = ""
    /\ status = 0
    /\ resBody = EmptyObject
    /\ sent = 0
    /\ calls = <<>>
    /\ thrown = NoError
    /\ upstreamError = NoError
    /\ upstreamData = <<>>
    /\ geoResult = EmptyObject
    /\ clock = 0
    /\ original = EmptyObject
    /\ context = EmptyObject
    /\ applied = <<>>
    /\ invocations = <<>>
    /\ req = EmptyObject
    /\ res = [status |-> 0]
    /\ stage = "listening"
    /\ rawInput = <<>>
    /\ sanitized = <<>>

NextApp ==
    \/ RequestArrives
    \/ GeneralLimiter
    \/ McpLimiter
    \/ ClientDetection
    \/ AuthLimiter
    \/ HandleLogin

SpecApp == InitApp /\ [][NextApp]_vars

(***************************************************************************)
(* sanitizeInput (utils/validation.js), the branch for strings.  A string  *)
(* is the sequence of its characters; a control character is written by    *)
(* its caret name ("^A" is U+0001, "^I" the tab, "^?" U+007F), the         *)
(* backslash by "&bsol;" and the backtick by "&grave;".                    *)
(***************************************************************************)
MaxFragments == 3  \* most fragments an input string is put together from

DefaultMaxLength == 10000

LowerLetters ==
    <<"a", "b", "c", "d", "e", "f", "g", "h", "i", "j", "k", "l", "m",
      "n", "o", "p", "q", "r", "s", "t", "u", "v", "w", "x", "y", "z">>

UpperLetters ==
    <<"A", "B", "C", "D", "E", "F", "G", "H", "I", "J", "K", "L", "M",
      "N", "O", "P", "Q", "R", "S", "T", "U", "V", "W", "X", "Y", "Z">>

Digits == {"0", "1", "2", "3", "4", "5", "6", "7", "8", "9"}

\* The character with its case folded, as the i flag compares characters.
FoldCase(c) ==
    IF \E i \in 1..Len(UpperLetters) : UpperLetters[i] = c
    THEN LowerLetters[CHOOSE i \in 1..Len(UpperLetters) : UpperLetters[i] = c]
    ELSE c

\* \w
IsWordChar(c) ==
    \/ \E i \in 1..Len(LowerLetters) : LowerLetters[i] = FoldCase(c)
    \/ c \in Digits
    \/ c = "_"

\* [\x00-\x1F\x7F]
ControlChars == {"^A", "^I", "^J", "^?"}

\* \s, and what trim() strips.
WhitespaceChars == {" ", "^I", "^J"}

\* String.prototype.trim
RECURSIVE trimStart(_)
trimStart(s) ==
    IF s # <<>> /\ Head(s) \in WhitespaceChars THEN trimStart(Tail(s)) ELSE s

RECURSIVE trimEnd(_)
trimEnd(s) ==
    IF s # <<>> /\ s[Len(s)] \in WhitespaceChars
    THEN trimEnd(SubSeq(s, 1, Len(s) - 1))
    ELSE s

trim(s) == trimEnd(trimStart(s))

\* The literal word occurs in s at position i, whatever the case.
OccursAt(s, i, word) ==
    /\ i + Len(word) - 1 <= Len(s)
    /\ \A k \in 1..Len(word) : FoldCase(s[i + k - 1]) = FoldCase(word[k])

\* /javascript:/i
JavascriptScheme == <<"j", "a", "v", "a", "s", "c", "r", "i", "p", "t", ":">>

\* The length of the longest run of word characters that starts at i.
RECURSIVE WordRun(_, _)
WordRun(s, i) == IF i <= Len(s) /\ IsWordChar(s[i]) THEN 1 + WordRun(s, i + 1) ELSE 0

\* The length of the longest run of whitespace that starts at i.
RECURSIVE SpaceRun(_, _)
SpaceRun(s, i) ==
    IF i <= Len(s) /\ s[i] \in WhitespaceChars THEN 1 + SpaceRun(s, i + 1) ELSE 0

\* /on\w+\s*=/i: "on", the longest run of word characters (one at least),
\* the longest run of whitespace, then "=".
HandlerMatch(s, i) ==
    IF ~OccursAt(s, i, <<"o", "n">>) THEN 0
    ELSE LET words == WordRun(s, i + 2)
             spaces == SpaceRun(s, i + 2 + words)
             last == i + 2 + words + spaces
         IN  IF words >= 1 /\ last <= Len(s) /\ s[last] = "="
             THEN last - i + 1
             ELSE 0

\* SELECT|INSERT|UPDATE|DELETE|DROP|CREATE|ALTER|EXEC|UNION
SqlKeywords ==
    <<<<"S", "E", "L", "E", "C", "T">>, <<"I", "N", "S", "E", "R", "T">>,
      <<"U", "P", "D", "A", "T", "E">>, <<"D", "E", "L", "E", "T", "E">>,
      <<"D", "R", "O", "P">>, <<"C", "R", "E", "A", "T", "E">>,
      <<"A", "L", "T", "E", "R">>, <<"E", "X", "E", "C">>,
      <<"U", "N", "I", "O", "N">>>>

\* \b(keyword)\b at position i of s: the keyword, not preceded and not
\* followed by a word character.
WholeWordAt(s, i, word) ==
    /\ OccursAt(s, i, word)
    /\ (i = 1 \/ ~IsWordChar(s[i - 1]))
    /\ (i + Len(word) > Len(s) \/ ~IsWordChar(s[i + Len(word)]))

\* /\b(SELECT|...|UNION)\b/i
KeywordMatch(s, i) ==
    IF \E k \in 1..Len(SqlKeywords) : WholeWordAt(s, i, SqlKeywords[k])
    THEN Len(SqlKeywords[CHOOSE k \in 1..Len(SqlKeywords) :
                            WholeWordAt(s, i, SqlKeywords[k])])
    ELSE 0

\* The length of the match of the regular expression re that starts at
\* position i of s (0: no match starts there).
MatchLength(re, s, i) ==
    CASE re = "[<>]" -> IF s[i] \in {"<", ">"} THEN 1 ELSE 0
      [] re = "javascript:" ->
            IF OccursAt(s, i, JavascriptScheme) THEN Len(JavascriptScheme) ELSE 0
      [] re = "on\\w+\\s*=" -> HandlerMatch(s, i)
      [] re = "quotes" -> IF s[i] \in {"'", "\"", "&grave;", ";", "&bsol;"} THEN 1 ELSE 0
      [] re = "keywords" -> KeywordMatch(s, i)
      [] re = "control" -> IF s[i] \in ControlChars THEN 1 ELSE 0

\* s.replace(re, '') with the g flag: the matches are found in s from left
\* to right, each search starting where the previous match ended, and the
\* text of s is never searched again after a removal.
RECURSIVE RemoveMatchesFrom(_, _, _)
RemoveMatchesFrom(s, i, re) ==
    IF i > Len(s) THEN <<>>
    ELSE IF MatchLength(re, s, i) > 0
    THEN RemoveMatchesFrom(s, i + MatchLength(re, s, i), re)
    ELSE <<s[i]>> \o RemoveMatchesFrom(s, i + 1, re)

RemoveMatches(s, re) == RemoveMatchesFrom(s, 1, re)

\* const { allowHtml = false, maxLength = 10000, stripSql = true } = options
DefaultOptions ==
    [allowHtml |-> FALSE, maxLength |-> DefaultMaxLength, stripSql |-> TRUE]

\* lines 268-271
Truncated(s, options) ==
    IF Len(s) > options["maxLength"] THEN SubSeq(s, 1, options["maxLength"]) ELSE s

\* lines 274-279
HtmlStripped(s, options) ==
    IF options["allowHtml"] THEN s
    ELSE RemoveMatches(RemoveMatches(RemoveMatches(s, "[<>]"), "javascript:"),
                       "on\\w+\\s*=")

\* lines 282-289
SqlStripped(s, options) ==
    IF ~options["stripSql"] THEN s
    ELSE RemoveMatches(RemoveMatches(s, "quotes"), "keywords")

\* sanitizeInput(input, options) for a string input, lines 261-295.
sanitizeInput(input, options) ==
    RemoveMatches(SqlStripped(HtmlStripped(Truncated(trim(input), options), options),
                              options),
                  "control")

\* The pieces input strings are put together from.
Fragments ==
    {<<"<">>, <<"'">>, <<"^A">>, <<" ">>,
     <<"j", "a", "v", "a">>, <<"s", "c", "r", "i", "p", "t", ":">>,
     JavascriptScheme,
     <<"S", "E", "L">>, <<"E", "C", "T">>,
     <<"o", "n", "l", "o", "a", "d", "=">>,
     <<"d", "r", "o", "p">>}

RECURSIVE Concat(_)
Concat(pieces) == IF pieces = <<>> THEN <<>> ELSE Head(pieces) \o Concat(Tail(pieces))

SanitizeInputs == {Concat(pieces) : pieces \in SeqUpTo(Fragments, MaxFragments)}

\* sanitizeInput is called on the string, with no options.
SanitizeInput ==
    /\ sanitized = <<>>
    /\ sanitized' = <<sanitizeInput(rawInput, DefaultOptions)>>
    /\ UNCHANGED <<rawInput, handlerVars, clock, chainVars, concurrentVars, appVars>>

InitSanitize ==
    /\ pc = "idle"
    /\ body = EmptyObject
    /\ mcpContext = EmptyObject
    /\ endpointName = ""
    /\ status = 0
    /\ resBody = EmptyObject
    /\ sent = 0
    /\ calls = <<>>
    /\ thrown = NoError
    /\ upstreamError = NoError
    /\ upstreamData = <<>>
    /\ geoResult = EmptyObject
    /\ clock = 0
    /\ original = EmptyObject
    /\ context = EmptyObject
    /\ applied = <<>>
    /\ invocations = <<>>
    /\ req = EmptyObject
    /\ res = [status |-> 0]
    /\ stage = "listening"
    /\ rawInput \in SanitizeInputs
    /\ sanitized = <<>>

NextSanitize == SanitizeInput

SpecSanitize == InitSanitize /\ [][NextSanitize]_vars

(***************************************************************************)
(* Properties.                                                             *)
(***************************************************************************)
\* The handler's invocation has finished: it answered, or an error left it.
Settled == pc \in {"responded", "rejected"}

\* The body passes validateMCPRequest.
Valid(b) == ~validateMCPRequest(b)["error"]

\* The body is in the JSON-RPC format: flagged by metadata.format, or in the
\* JSON-RPC 2.0 wire shape.
InJsonRpcFormat(b) == IsJsonRpc(b) \/ (Has(b, "jsonrpc") /\ b["jsonrpc"] = "2.0")

\* The body is in the legacy format.
IsLegacy(b) == ~InJsonRpcFormat(b)

\* The names of the registry, as a set.
ConfiguredNames == {EndpointKeys[i] : i \in 1..Len(EndpointKeys)}

\* The elements of a sequence.
Elements(seq) == {seq[i] : i \in 1..Len(seq)}

\* C1: every invocation of handleMCPRequest sends exactly one HTTP response
\* on every path once its outbound calls have settled, and no error leaves
\* the handler unanswered.
C1_ExactlyOneResponse ==
    /\ sent <= 1
    /\ thrown = NoError
    /\ Settled => sent = 1

\* C2: in the legacy format a failed upstream call is answered by kind: a
\* timeout (ECONNABORTED) with 408, an upstream non-success status with 502
\* whose details carry the status and statusText, any other failure with 500
\* and the error message in details.
C2_LegacyUpstreamFailureByKind ==
    (IsLegacy(body) /\ upstreamError # NoError) =>
        /\ pc = "responded"
        /\ IF Has(upstreamError, "code") /\ upstreamError["code"] = "ECONNABORTED"
           THEN status = 408
           ELSE IF Has(upstreamError, "response")
           THEN /\ status = 502
                /\ resBody["details"] =
                      <<"API returned ",
                        Numeral(upstreamError["response"]["status"]), ": ",
                        upstreamError["response"]["statusText"]>>
           ELSE /\ status = 500
                /\ resBody["details"] = upstreamError["message"]

\* C3: after any sequence of buildMCPResponse and buildMCPErrorResponse
\* applications, starting from a context whose tool_count is absent or
\* equals its tools length, metadata.tool_count equals the length of tools.
C3_ToolCountEqualsLength ==
    applied # <<>> =>
        /\ Has(context["metadata"], "tool_count")
        /\ context["metadata"]["tool_count"] = Len(context["tools"])

\* The last entry of the chain's tools.
LastTool == context["tools"][Len(context["tools"])]

\* C4 as stated: after any sequence of builder applications,
\* metadata.last_endpoint equals the endpoint of the last entry of tools and
\* metadata.last_error, when present, equals output.error of the last entry
\* of tools.
C4_LastErrorIsOfLastEntry ==
    applied # <<>> =>
        /\ context["metadata"]["last_endpoint"] = LastTool["output"]["metadata"]["endpoint"]
        /\ Has(context["metadata"], "last_error") =>
              /\ Has(LastTool["output"], "error")
              /\ context["metadata"]["last_error"] = LastTool["output"]["error"]

\* The positions in the chain's tools of the failure records the builders
\* appended.
AppendedFailures ==
    {i \in (Len(PropOr(original, "tools", <<>>)) + 1)..Len(context["tools"]) :
        ~context["tools"][i]["output"]["success"]}

Maximum(S) == CHOOSE x \in S : \A y \in S : y <= x

\* C4 as amended: metadata.last_endpoint equals the endpoint of the last
\* entry of tools; metadata.last_error equals output.error of the most
\* recently appended failure record (the last entry only when the last
\* application was buildMCPErrorResponse), and while no failure record has
\* been appended it is whatever the starting context carried, if anything.
C4_LastErrorIsOfLastFailure ==
    applied # <<>> =>
        /\ context["metadata"]["last_endpoint"] = LastTool["output"]["metadata"]["endpoint"]
        /\ IF AppendedFailures = {}
           THEN Pick(context["metadata"], [last_error |-> "last_error"])
                = Pick(PropOr(original, "metadata", EmptyObject),
                       [last_error |-> "last_error"])
           ELSE /\ Has(context["metadata"], "last_error")
                /\ context["metadata"]["last_error"]
                   = context["tools"][Maximum(AppendedFailures)]["output"]["error"]
        /\ applied[Len(applied)]["builder"] = "buildMCPErrorResponse" =>
              context["metadata"]["last_error"] = LastTool["output"]["error"]

\* C4 witness: a success record was appended after two failure records with
\* different messages, and last_error is still present.
C4_Witness_SuccessAfterFailure ==
    /\ Len(applied) >= 2
    /\ applied[Len(applied)]["builder"] = "buildMCPResponse"
    /\ applied[Len(applied) - 1]["builder"] = "buildMCPErrorResponse"
    /\ Has(context["metadata"], "last_error")
    /\ ~Has(LastTool["output"], "error")

\* C5: for every legacy-format request dispatched successfully,
\* response.tools has exactly one more entry than request.tools (absent
\* counts as empty) and its first len(request.tools) entries equal
\* request.tools in the same order.
C5_ToolsAppendOnly ==
    (pc = "responded" /\ status = 200 /\ IsLegacy(body)) =>
        LET requestTools == PropOr(body, "tools", <<>>) IN
        /\ Len(resBody["tools"]) = Len(requestTools) + 1
        /\ \A i \in 1..Len(requestTools) : resBody["tools"][i] = requestTools[i]

\* C6: a legacy-format dispatch whose endpointName is not one of the
\* configured names is answered with HTTP 400 whose availableEndpoints lists
\* the four configured names, and is never resolved to an endpoint
\* definition (no upstream call is issued for it).
C6_UnknownEndpointRejected ==
    (/\ pc # "idle"
     /\ IsLegacy(body)
     /\ Valid(body)
     /\ body["input"]["endpointName"] \notin ConfiguredNames) =>
        /\ pc = "responded"
        /\ status = 400
        /\ Has(resBody, "availableEndpoints")
        /\ Elements(resBody["availableEndpoints"]) = ConfiguredNames
        /\ calls = <<>>

\* C7: every response to a request made in the JSON-RPC format has HTTP
\* status 200 and a body {jsonrpc: "2.0", id, result} or
\* {jsonrpc: "2.0", id, error}, malformed requests included.
C7_JsonRpcAlways200 ==
    (pc = "responded" /\ InJsonRpcFormat(body)) =>
        /\ status = 200
        /\ Has(resBody, "jsonrpc")
        /\ resBody["jsonrpc"] = "2.0"
        /\ Has(resBody, "result") # Has(resBody, "error")

\* C8: a request in the JSON-RPC wire shape (no legacy input field) with
\* method initialize is answered with the same id and a result carrying
\* protocolVersion, with method tools/list with a result.tools array holding
\* a tool named get_weather; neither issues an outbound call.
C8_WireInitializeAndToolsList ==
    (/\ pc # "idle"
     /\ Has(body, "jsonrpc")
     /\ ~Has(body, "input")
     /\ body["method"] \in {"initialize", "tools/list"}) =>
        /\ pc = "responded"
        /\ calls = <<>>
        /\ Has(resBody, "id")
        /\ resBody["id"] = body["id"]
        /\ Has(resBody, "result")
        /\ body["method"] = "initialize" =>
              Has(resBody["result"], "protocolVersion")
        /\ body["method"] = "tools/list" =>
              \E i \in 1..Len(resBody["result"]["tools"]) :
                  resBody["result"]["tools"][i]["name"] = "get_weather"

\* C9: in the JSON-RPC format an upstream timeout yields error code -32001,
\* an upstream HTTP error -32002 with the upstream status and statusText in
\* the message, any other failure -32000, each with data.details.
C9_JsonRpcUpstreamErrorCodes ==
    (IsJsonRpc(body) /\ upstreamError # NoError) =>
        /\ pc = "responded"
        /\ Has(resBody, "jsonrpc")
        /\ Has(resBody, "error")
        /\ Has(resBody["error"]["data"], "details")
        /\ IF Has(upstreamError, "code") /\ upstreamError["code"] = "ECONNABORTED"
           THEN resBody["error"]["code"] = -32001
           ELSE IF Has(upstreamError, "response")
           THEN /\ resBody["error"]["code"] = -32002
                /\ Numeral(upstreamError["response"]["status"])
                      \in Elements(resBody["error"]["message"])
                /\ upstreamError["response"]["statusText"]
                      \in Elements(resBody["error"]["message"])
           ELSE resBody["error"]["code"] = -32000

\* C10: in the JSON-RPC format a request without input or input.endpointName
\* (InvalidRequest) and a request whose endpointName is not in the registry
\* (UnknownEndpoint) are each answered with a JSON-RPC error of code -32602;
\* for UnknownEndpoint the error data enumerates the valid endpoint names.
C10_InvalidRequestIsMinus32602 ==
    /\ (/\ pc # "idle"
        /\ IsJsonRpc(body)
        /\ (~Has(body, "input") \/ ~Has(body["input"], "endpointName"))) =>
            /\ pc = "responded"
            /\ Has(resBody, "jsonrpc")
            /\ Has(resBody, "error")
            /\ resBody["error"]["code"] = -32602
    /\ (/\ pc = "responded"
        /\ IsJsonRpc(body)
        /\ Valid(body)
        /\ Has(body, "method")
        /\ body["method"] = "tools/call"
        /\ calls = <<>>
        /\ EndpointLookup(body["input"]["endpointName"]) = Undefined) =>
            /\ Has(resBody, "jsonrpc")
            /\ Has(resBody, "error")
            /\ resBody["error"]["code"] = -32602
            /\ Elements(resBody["error"]["data"]["availableEndpoints"]) = ConfiguredNames

\* C11: every JSON-RPC response of handleMCPRequest (the method switch, the
\* unknown-endpoint and weather results, and the catch-all error branch)
\* carries an id equal to the request's id, whatever the id is.
C11_IdEchoedOnEveryBranch ==
    (Settled /\ IsJsonRpc(body) /\ Valid(body)) =>
        /\ pc = "responded"
        /\ Has(resBody, "jsonrpc")
        /\ Pick(resBody, [id |-> "id"]) = Pick(body, [id |-> "id"])

\* The methods of the JSON-RPC dispatch table.
SupportedMethods == {"initialize", "tools/list", "tools/call"}

\* C12: in the JSON-RPC format a request whose method is not initialize,
\* tools/list or tools/call (a missing method included) is answered with
\* error code -32601 whose data enumerates exactly those three methods, with
\* no outbound call; a tools/call request is never answered with -32601.
C12_MethodNotFound ==
    /\ (/\ pc # "idle"
        /\ InJsonRpcFormat(body)
        /\ IsJsonRpc(body) => Valid(body)
        /\ PropOr(body, "method", "undefined") \notin SupportedMethods) =>
            /\ pc = "responded"
            /\ calls = <<>>
            /\ Has(resBody, "jsonrpc")
            /\ Has(resBody, "error")
            /\ resBody["error"]["code"] = -32601
            /\ Len(resBody["error"]["data"]["availableMethods"]) = 3
            /\ Elements(resBody["error"]["data"]["availableMethods"]) = SupportedMethods
    /\ (/\ pc = "responded"
        /\ InJsonRpcFormat(body)
        /\ PropOr(body, "method", "undefined") = "tools/call"
        /\ Has(resBody, "jsonrpc")
        /\ Has(resBody, "error")) =>
            resBody["error"]["code"] # -32601

\* The geocoding-service calls issued for the request.
GeocodingCalls == {i \in 1..Len(calls) : calls[i]["service"] = "geocoding"}

\* The calls to an endpoint's upstream URL issued for the request.
EndpointCalls == {i \in 1..Len(calls) : calls[i]["service"] = "endpoint"}

\* The request is a JSON-RPC tools/call that carries arguments.
IsToolsCall(b) ==
    /\ IsJsonRpc(b)
    /\ Valid(b)
    /\ PropOr(b, "method", "undefined") = "tools/call"
    /\ Has(b["input"], "queryParams")

\* C13: in a JSON-RPC tools/call the geocoding call is issued only when the
\* caller supplies a location and no explicit coordinates; whenever the
\* caller supplies latitude and longitude (any numbers, 0 included, with or
\* without a location) no geocoding call is made.
C13_GeocodingSkippedWithCoordinates ==
    (pc # "idle" /\ IsToolsCall(body)) =>
        LET toolArgs == body["input"]["queryParams"]
            explicit == Has(toolArgs, "latitude") /\ Has(toolArgs, "longitude")
        IN  /\ GeocodingCalls # {} => (Has(toolArgs, "location") /\ ~explicit)
            /\ explicit => GeocodingCalls = {}

\* The geocoding search resolved without a first result.
GeocodingFoundNothing ==
    /\ geoResult # EmptyObject
    /\ geoResult["ok"]
    /\ (~Has(geoResult["data"], "results") \/ Len(geoResult["data"]["results"]) = 0)

\* The geocoding call rejected (transport failure or timeout).
GeocodingFailed == geoResult # EmptyObject /\ ~geoResult["ok"]

CallerParams == PropOr(PropOr(body, "input", EmptyObject), "queryParams", EmptyObject)

DefaultParams ==
    PropOr(EndpointLookup(body["input"]["endpointName"]), "defaultParams", EmptyObject)

SoloRuns(requestBody, geo, upstream) ==
    LET first == Settle(handlerEntry(requestBody))
        geocoded ==
            IF first["kind"] = "await" /\ first["pc"] = "await_geo" /\ geo # EmptyObject
            THEN <<Settle(afterGeocoding(first["ctx"], geo))>>
            ELSE <<>>
        suspended == IF geocoded = <<>> THEN first ELSE geocoded[1]
        fetched ==
            IF /\ suspended["kind"] = "await"
               /\ suspended["pc"] = "await_upstream"
               /\ upstream # EmptyObject
            THEN IF upstream["ok"]
                 THEN <<Settle(afterUpstream(suspended["ctx"], suspended["endpointName"],
                                             upstream["data"],
                                             toISOString(upstream["at"])))>>
                 ELSE <<catchBlock(upstream["err"], suspended["ctx"])>>
            ELSE <<>>
    IN  <<first>> \o geocoded \o fetched

\* The outbound calls of a sequence of runs.
CallsOf(runs) ==
    LET awaits == SelectSeq(runs, LAMBDA o : o["kind"] = "await")
    IN  [i \in 1..Len(awaits) |-> awaits[i]["call"]]

\* What the caller and the upstream services observe of an invocation.
Observed(inv) ==
    [pc |-> inv["pc"], status |-> inv["status"], resBody |-> inv["resBody"],
     calls |-> inv["calls"], thrown |-> inv["thrown"]]

\* The same for a request processed on its own.
ObservedAlone(requestBody, geo, upstream) ==
    LET runs == SoloRuns(requestBody, geo, upstream)
    IN  Observed(Resume([NotStarted EXCEPT !.calls = CallsOf(SubSeq(runs, 1, Len(runs) - 1))],
                        runs[Len(runs)]))

\* C16: for any interleaving of concurrent requests at their suspension
\* points, what each request is answered with (and the calls made for it) is
\* what it would be, were the request processed alone with the same
\* geocoding and upstream results: nothing of another request appears in or
\* alters it.
C16_RequestsAreIndependent ==
    \A r \in DOMAIN invocations :
        invocations[r]["pc"] # "idle" =>
            Observed(invocations[r])
                = ObservedAlone(invocations[r]["body"], invocations[r]["geoResult"],
                                invocations[r]["upstreamResult"])

\* The response sent is an error response: a non-success HTTP status or a
\* JSON-RPC error envelope.
IsErrorResponse ==
    /\ pc = "responded"
    /\ (status >= 400 \/ (Has(resBody, "jsonrpc") /\ Has(resBody, "error")))

\* C17: every error response of the dispatcher includes a human-readable
\* message or details field, and every HTTP 400 response (invalid request
\* and unknown endpoint alike) also enumerates the valid endpoint names.
C17_ErrorResponsesAreDescriptive ==
    /\ IsErrorResponse =>
          IF Has(resBody, "jsonrpc")
          THEN Has(resBody["error"], "message") \/ Has(resBody["error"]["data"], "details")
          ELSE Has(resBody, "message") \/ Has(resBody, "details")
    /\ (pc = "responded" /\ status = 400) =>
          /\ Has(resBody, "availableEndpoints")
          /\ Elements(resBody["availableEndpoints"]) = ConfiguredNames

ServerMaintainedKeys == {"last_updated", "tool_count", "last_endpoint", "last_error"}

ReferenceWeather(raw) ==
    [location |-> [latitude |-> raw["latitude"],
                   longitude |-> raw["longitude"],
                   timezone |-> raw["timezone"]],
     current |-> IF Has(raw, "current_weather")
                 THEN [temperature |-> raw["current_weather"]["temperature"],
                       windspeed |-> raw["current_weather"]["windspeed"],
                       winddirection |-> raw["current_weather"]["winddirection"],
                       weathercode |-> raw["current_weather"]["weathercode"],
                       time |-> raw["current_weather"]["time"]]
                 ELSE Null,
     forecast |-> IF Has(raw, "daily")
                  THEN [dates |-> raw["daily"]["time"],
                        temperatures_max |-> raw["daily"]["temperature_2m_max"],
                        temperatures_min |-> raw["daily"]["temperature_2m_min"],
                        weather_codes |-> raw["daily"]["weathercode"]]
                  ELSE Null]

ReferenceUser(raw) ==
    [id |-> raw["id"], name |-> raw["name"], email |-> raw["email"],
     city |-> raw["address"]["city"]]

\* C20: for a successful dispatch the appended record's output.data is the
\* endpoint's reference transform of the raw upstream payload: for getWeather
\* {location, current or null, forecast or null}, for getUsers each record
\* reduced to exactly {id, name, email, city}, and for getPosts (no
\* transformer) the raw payload unchanged.
C20_OutputDataIsReferenceTransform ==
    (pc = "responded" /\ status = 200 /\ IsLegacy(body)) =>
        LET name == body["input"]["endpointName"]
            raw == upstreamData[1]
            record == resBody["tools"][Len(resBody["tools"])]
            data == record["output"]["data"]
        IN  /\ record["output"]["success"]
            /\ name = "getWeather" => (raw # Null /\ data = ReferenceWeather(raw))
            /\ name = "getUsers" =>
                  /\ IsArray(raw)
                  /\ IsArray(data)
                  /\ Len(data["items"]) = Len(raw["items"])
                  /\ \A i \in 1..Len(data["items"]) :
                        data["items"][i] = ReferenceUser(raw["items"][i])
            /\ name = "getPosts" => data = raw

\* C20 witness: a getUsers dispatch succeeded on a payload whose record
\* carries username, phone, address and company.
C20_Witness_UsersReduced ==
    /\ pc = "responded"
    /\ status = 200
    /\ IsLegacy(body)
    /\ body["input"]["endpointName"] = "getUsers"
    /\ upstreamData = <<Array(<<RawUser>>)>>
    /\ DOMAIN resBody["tools"][Len(resBody["tools"])]["output"]["data"]["items"][1]
          = {"id", "name", "email", "city"}

\* C21: POST /mcp is accepted only from authenticated callers: a request
\* that carries no valid X-API-Key and no valid token never reaches
\* handleMCPRequest.
C21_McpRequiresAuthentication ==
    stage = "handleMCPRequest" => (HasValidApiKey(req) \/ HasValidToken(req))

\* The login body is well formed: an object whose username and password
\* pass the login schema.
WellFormedLogin(b) == ~IsArray(b) /\ LoginDetails(b) = <<>>

\* The stored user the login body's credentials match, if any.
MatchingUsers(b) ==
    {i \in 1..Len(users) : /\ users[i]["username"] = b["username"]
                           /\ users[i]["password"] = b["password"]}

\* C22: handleLogin answers every request: 200 with success, a token and
\* the user's id, username and role for a well-formed body that matches a
\* stored user, 400 with the validation messages for a malformed body, 401
\* for wrong credentials; no login request ends without a response.
C22_LoginAnswersEveryRequest ==
    (/\ stage \in {"responded", "rejected"}
     /\ req["path"] = "/auth/login"
     /\ res["status"] # 429) =>
        /\ stage = "responded"
        /\ IF ~WellFormedLogin(req["body"])
           THEN /\ res["status"] = 400
                /\ res["body"]["details"] = LoginDetails(req["body"])
           ELSE IF MatchingUsers(req["body"]) = {}
           THEN res["status"] = 401
           ELSE /\ res["status"] = 200
                /\ res["body"]["success"] = TRUE
                /\ Has(res["body"], "token")
                /\ \E i \in MatchingUsers(req["body"]) :
                      res["body"]["user"] = Pick(users[i], [id |-> "id",
                                                            username |-> "username",
                                                            role |-> "role"])

\* The positions of the success records of a response body.
SuccessRecords(b) ==
    IF ~Has(b, "tools") THEN {}
    ELSE {i \in 1..Len(b["tools"]) :
             /\ Has(b["tools"][i], "output")
             /\ Has(b["tools"][i]["output"], "success")
             /\ b["tools"][i]["output"]["success"] = TRUE}

\* C23: a success record appears in a response only if, for that request,
\* validation passed, the endpoint resolved, the upstream call returned
\* successfully and the transformer ran, in that order (the upstream call
\* returns only for a validated request with a resolved endpoint, and a
\* record is built only from what it returned); after a failure of any of
\* these steps the response holds no success record.
C23_SuccessRecordOnlyAfterAllSteps ==
    /\ upstreamData # <<>> =>
          /\ Valid(body)
          /\ body["input"]["endpointName"] \in ConfiguredNames
          /\ EndpointCalls # {}
    /\ (pc = "responded" /\ SuccessRecords(resBody) # {}) =>
          /\ upstreamData # <<>>
          /\ upstreamError = NoError
          /\ ~Transform(endpoints[body["input"]["endpointName"]], upstreamData[1])["threw"]

\* C23 witness: the request carried a success record of an earlier tool
\* and its own dispatch succeeded, so the response holds both.
C23_Witness_TwoSuccessRecords ==
    /\ pc = "responded"
    /\ status = 200
    /\ Cardinality(SuccessRecords(body)) = 1
    /\ Cardinality(SuccessRecords(resBody)) = 2

\* C24: no outbound HTTP call, neither the geocoding call nor the endpoint
\* call, is issued for a request that fails validation or whose
\* endpointName is not in the registry, in the legacy and in the JSON-RPC
\* format alike.
C24_NoCallBeforeResolution ==
    (/\ pc # "idle"
     /\ \/ ~Valid(body)
        \/ body["input"]["endpointName"] \notin ConfiguredNames) =>
        calls = <<>>

\* The keys the geocoding merge writes.
GeocodedKeys == {"latitude", "longitude", "location_name"}

\* C25: in a tools/call that needs geocoding, the weather call is issued
\* only after the geocoding call has completed with a result, and its
\* params hold latitude and longitude of the first geocoding result,
\* location_name built from its name and country, the caller's other
\* arguments unchanged and the endpoint's default params for the keys the
\* caller did not give.
C25_GeocodedCoordinatesSentUpstream ==
    (GeocodingCalls # {} /\ EndpointCalls # {}) =>
        /\ geoResult # EmptyObject
        /\ geoResult["ok"]
        /\ Has(geoResult["data"], "results")
        /\ geoResult["data"]["results"] # <<>>
        /\ \A i \in EndpointCalls :
              LET sentParams == calls[i]["params"]
                  first == geoResult["data"]["results"][1]
              IN  /\ \A g \in GeocodingCalls : g < i
                  /\ GeocodedKeys \subseteq DOMAIN sentParams
                  /\ sentParams["latitude"] = first["latitude"]
                  /\ sentParams["longitude"] = first["longitude"]
                  /\ sentParams["location_name"] = <<first["name"], ", ", first["country"]>>
                  /\ \A k \in (DOMAIN CallerParams) \ GeocodedKeys :
                        Has(sentParams, k) /\ sentParams[k] = CallerParams[k]
                  /\ \A k \in (DOMAIN DefaultParams) \ (DOMAIN CallerParams \cup GeocodedKeys) :
                        Has(sentParams, k) /\ sentParams[k] = DefaultParams[k]

\* C25 witness: the weather call went out after London was geocoded,
\* carrying the geocoded latitude, the caller's location and a default.
C25_Witness_WeatherCallAfterGeocoding ==
    /\ GeocodingCalls # {}
    /\ EndpointCalls # {}
    /\ calls[Len(calls)]["params"]["latitude"] = 51
    /\ calls[Len(calls)]["params"]["location"] = "London"
    /\ Has(calls[Len(calls)]["params"], "current_weather")

\* The record input holds the params: key by key beside the endpoint name,
\* or as one object under a key of its own.
HoldsParams(recordInput, sentParams) ==
    \/ \A k \in DOMAIN sentParams : Has(recordInput, k) /\ recordInput[k] = sentParams[k]
    \/ \E key \in (DOMAIN recordInput) \ {"endpoint", "endpointName"} :
          recordInput[key] = sentParams

\* C26: the input field of the record appended on a successful dispatch is
\* a snapshot of the resolved request: the endpoint name and the merged
\* parameters (registry defaults overlaid by the caller's params) that were
\* sent upstream.
C26_RecordInputIsResolvedRequest ==
    (pc = "responded" /\ status = 200 /\ IsLegacy(body)) =>
        LET record == resBody["tools"][Len(resBody["tools"])]
            sentParams == calls[Len(calls)]["params"]
        IN  /\ record["input"]["endpoint"] = body["input"]["endpointName"]
            /\ HoldsParams(record["input"], sentParams)

\* C27: for every record appended by buildMCPResponse or
\* buildMCPErrorResponse, record.input.endpoint equals the endpointName
\* argument and equals record.output.metadata.endpoint, whatever input
\* object the caller supplied, one that carries an endpoint key included.
C27_RecordEndpointIsArgument ==
    applied # <<>> =>
        LET call == applied[Len(applied)]
            record == context["tools"][Len(context["tools"])]
        IN  /\ record["input"]["endpoint"] = call["endpoint"]
            /\ record["output"]["metadata"]["endpoint"] = call["endpoint"]

\* C28: every registered transformer is total: on every payload the
\* upstream returns (a user record without an address, a users payload
\* that is not an array, a null or empty payload included) it returns a
\* value and does not throw.
C28_TransformersAreTotal ==
    upstreamData # <<>> =>
        ~Transform(EndpointLookup(body["input"]["endpointName"]), upstreamData[1])["threw"]

\* The authHeaders the caller supplied.
CallerAuthHeaders ==
    PropOr(PropOr(body, "input", EmptyObject), "authHeaders", EmptyObject)

\* C29: the headers of the upstream request hold each key of the caller's
\* authHeaders with its value unchanged, and User-Agent equal to
\* 'MCP-Weather-Server/1.0.0' whatever keys authHeaders holds.
C29_AuthHeadersForwardedWithFixedUserAgent ==
    \A i \in EndpointCalls :
        LET headers == calls[i]["headers"] IN
        /\ \A h \in (DOMAIN CallerAuthHeaders) \ {"User-Agent"} :
              Has(headers, h) /\ headers[h] = CallerAuthHeaders[h]
        /\ Has(headers, "User-Agent")
        /\ headers["User-Agent"] = "MCP-Weather-Server/1.0.0"

\* The characters the sanitizer is to remove one by one.
ForbiddenChars == {"<", ">", "'", "\"", "&grave;", ";", "&bsol;"} \cup ControlChars

\* C30: for every string input with default options, the result of
\* sanitizeInput holds no '<' or '>', no quote, backtick, semicolon or
\* backslash, no control character, no occurrence of 'javascript:' and none
\* of the listed SQL keywords as a whole word.
C30_SanitizedIsClean ==
    sanitized # <<>> =>
        LET out == sanitized[1] IN
        /\ \A i \in 1..Len(out) : out[i] \notin ForbiddenChars
        /\ \A i \in 1..Len(out) : ~OccursAt(out, i, JavascriptScheme)
        /\ \A i \in 1..Len(out), k \in 1..Len(SqlKeywords) :
              ~WholeWordAt(out, i, SqlKeywords[k])

=============================================================================
